---- MODULE Spec2Model ----
(***************************************************************************)
(* ldap-sync: the dependency and binding resolver, the target writer, the  *)
(* search registry, the search scheduler and the change detector of        *)
(* src/main.go.                                                            *)
(*                                                                         *)
(* Strings are sequences of one-character strings, so that template        *)
(* substitution (resolveString) and DN normalisation (normalizeDN) are     *)
(* computed character by character as the Go code does.  Every goroutine   *)
(* that processes a hook response is a thread with a call stack of frames; *)
(* one action is one critical section or one I/O step of the code.         *)
(***************************************************************************)
EXTENDS Integers, Sequences, FiniteSets, TLC

VARIABLES
    stack,          \* thread -> call stack (sequence of frames, top is last)
    started,        \* number of hook responses handed to processHookResponse
    bindings,       \* var bindings     map[string]string
    nullBindings,   \* var nullBindings map[string]struct{}
    synced,         \* dependencyState.synced
    pending,        \* dependencyState.pending : key -> pendingEntry
    reverse,        \* dependencyState.reverse : dep key -> set of parent keys
    dnLocks,        \* keys of dnLocks whose mutex is held
    written,        \* normalized DNs with a completed successful target write
    failures,       \* number of target writes that returned an error
    target,         \* the target directory: normalized DN -> attribute -> values
    replay,         \* history: the response handed in twice in a row, and the
                    \* state its first processing left
    searches,       \* var searches: id -> *SearchSpec (a pointer)
    specs,          \* the SearchSpec objects: pointer -> [Oneshot, Stop]
    searchResults,  \* var searchResults: id -> DN -> content
    chans,          \* number of Stop channels made so far
    closed,         \* the Stop channels that have been closed
    tasks,          \* the goroutines running ldapSearchAndSync, by Stop channel
    calls,          \* caller -> the REST or hook call on the registry in progress
    issued,         \* number of calls on the registry made so far
    emitted,        \* history: the results handed to sendHooks, in order
    crashed,        \* a goroutine has panicked outside the REST layer
    post,           \* the call of postToHookWithRetry in progress, with its history
    mutex           \* d.mu: its holder, and where each goroutine is between the
                    \* Lock and Unlock calls of the resolver

resolverVars == <<stack, started, bindings, nullBindings, synced, pending, reverse,
                  dnLocks, written, failures, target>>

\* the search subsystem and the hook dispatcher it feeds
searchVars == <<searches, specs, searchResults, chans, closed, tasks, calls, issued,
                emitted, crashed, post, mutex>>

vars == <<resolverVars, replay, searchVars>>

-----------------------------------------------------------------------------
(* Bounds of the model.                                                    *)

MaxResponses == 3
MaxFailures == 1

Threads == {1, 2}

MaxCalls == 2
MaxAttempts == 2

\* the largest max_retries, and the largest delay in milliseconds, of the
\* configurations tried
\* the resolver mutex: depth of the calls handleEntry and
\* markSyncedAndRelease make of each other, entries one call finds ready
MaxDepth == 2
MaxReady == 1

\* the hooks of config.Hooks: each result a task emits starts that many
\* hook goroutines
HooksConfigured == 2

MaxRetriesCfg == 2
MaxDelayCfg == 3

\* the goroutines that call on the search registry (REST requests, hook
\* responses with derived searches)
Callers == {1, 2}

-----------------------------------------------------------------------------
(* Characters and strings.                                                 *)

UpperChars == <<"A","B","C","D","E","F","G","H","I","J","K","L","M",
                "N","O","P","Q","R","S","T","U","V","W","X","Y","Z">>
LowerChars == <<"a","b","c","d","e","f","g","h","i","j","k","l","m",
                "n","o","p","q","r","s","t","u","v","w","x","y","z">>
DigitChars == {"0","1","2","3","4","5","6","7","8","9"}

Range(s) == {s[i] : i \in DOMAIN s}

\* the character class [A-Za-z0-9_.] of bindingPattern
NameChars == Range(UpperChars) \cup Range(LowerChars) \cup DigitChars \cup {"_", "."}

LowerChar(c) ==
    IF \E i \in DOMAIN UpperChars : UpperChars[i] = c
    THEN LowerChars[CHOOSE i \in DOMAIN UpperChars : UpperChars[i] = c]
    ELSE c

ToLower(s) == [i \in DOMAIN s |-> LowerChar(s[i])]

IsSpace(c) == c \in {" ", "\t", "\n"}

TrimSpace(s) ==
    IF \A i \in DOMAIN s : IsSpace(s[i]) THEN <<>>
    ELSE LET first == CHOOSE i \in DOMAIN s :
                         /\ ~IsSpace(s[i])
                         /\ \A j \in 1..(i-1) : IsSpace(s[j])
             last  == CHOOSE i \in DOMAIN s :
                         /\ ~IsSpace(s[i])
                         /\ \A j \in (i+1)..Len(s) : IsSpace(s[j])
         IN SubSeq(s, first, last)

normalizeDN(dn) == ToLower(TrimSpace(dn))

\* end of the longest run of name characters that starts at position i
RECURSIVE NameEnd(_, _)
NameEnd(s, i) ==
    IF i + 1 <= Len(s) /\ s[i + 1] \in NameChars THEN NameEnd(s, i + 1) ELSE i

\* whether a match of bindingPattern starts at position i
MatchAt(s, i) == s[i] = "$" /\ i + 1 <= Len(s) /\ s[i + 1] \in NameChars

\* the names of the placeholders of s: FindAllStringIndex, leftmost and greedy
RECURSIVE PlaceholdersFrom(_, _)
PlaceholdersFrom(s, i) ==
    IF i > Len(s) THEN {}
    ELSE IF MatchAt(s, i)
         THEN LET e == NameEnd(s, i + 1)
              IN {SubSeq(s, i + 1, e)} \cup PlaceholdersFrom(s, e + 1)
         ELSE PlaceholdersFrom(s, i + 1)

Placeholders(s) == PlaceholdersFrom(s, 1)

-----------------------------------------------------------------------------
(* Template substitution.                                                  *)

EmptyMap == [k \in {} |-> <<>>]

RECURSIVE ResolveFrom(_, _, _, _)
ResolveFrom(s, i, b, nb) ==
    IF i > Len(s) THEN [out |-> <<>>, missing |-> FALSE, hasNull |-> FALSE]
    ELSE IF MatchAt(s, i)
         THEN LET e    == NameEnd(s, i + 1)
                  key  == SubSeq(s, i + 1, e)
                  rest == ResolveFrom(s, e + 1, b, nb)
              IN IF key \in DOMAIN b
                 THEN [rest EXCEPT !.out = b[key] \o @]
                 ELSE IF key \in nb
                      THEN [rest EXCEPT !.hasNull = TRUE]
                      ELSE [rest EXCEPT !.out = SubSeq(s, i, e) \o @,
                                        !.missing = TRUE]
         ELSE LET rest == ResolveFrom(s, i + 1, b, nb)
              IN [rest EXCEPT !.out = <<s[i]>> \o @]

\* mutant: a null-marked name is reported as missing
resolveStringNullMissing(input, b, nb) ==
    LET r == ResolveFrom(input, 1, b, nb)
    IN [r EXCEPT !.missing = r.missing \/ r.hasNull]

resolveString(input, b, nb) == ResolveFrom(input, 1, b, nb)

\* A content value is [list |-> FALSE, v |-> string] (a scalar string) or
\* [list |-> TRUE, v |-> sequence of strings].
Scalar(s) == [list |-> FALSE, v |-> s]
List(l) == [list |-> TRUE, v |-> l]

RECURSIVE ResolveItems(_, _, _)
ResolveItems(items, b, nb) ==
    IF items = <<>> THEN [out |-> <<>>, missing |-> FALSE]
    ELSE LET r    == resolveString(Head(items), b, nb)
             rest == ResolveItems(Tail(items), b, nb)
         IN [out     |-> IF r.hasNull THEN rest.out ELSE <<r.out>> \o rest.out,
             missing |-> r.missing \/ rest.missing]

\* mutant: an element that names a null binding stays, without the name
resolveValueKeepNull(val, b, nb) ==
    IF val.list
    THEN [val     |-> List([i \in 1..Len(val.v) |-> resolveString(val.v[i], b, nb).out]),
          missing |-> \E i \in 1..Len(val.v) : resolveString(val.v[i], b, nb).missing]
    ELSE LET r == resolveString(val.v, b, nb)
         IN [val |-> Scalar(r.out), missing |-> r.missing]

resolveValue(val, b, nb) ==
    IF val.list
    THEN LET r == ResolveItems(val.v, b, nb)
         IN [val |-> List(r.out), missing |-> r.missing]
    ELSE LET r == resolveString(val.v, b, nb)
         IN [val |-> Scalar(r.out), missing |-> r.missing]

resolveEntryTemplates(entry, b, nb) ==
    LET dn == resolveString(entry.DN, b, nb)
        missingContent ==
            \E k \in DOMAIN entry.Content : resolveValue(entry.Content[k], b, nb).missing
        missingDN == dn.missing \/ dn.hasNull
    IN [entry   |-> [DN      |-> dn.out,
                     Content |-> [k \in DOMAIN entry.Content |->
                                     resolveValue(entry.Content[k], b, nb).val]],
        missing |-> missingDN \/ missingContent]

RECURSIVE resolveDependencies(_, _, _)
resolveDependencies(deps, b, nb) ==
    IF deps = <<>> THEN [deps |-> <<>>, missing |-> FALSE]
    ELSE LET r    == resolveString(Head(deps), b, nb)
             rest == resolveDependencies(Tail(deps), b, nb)
         IN IF r.hasNull THEN rest
            ELSE [deps    |-> <<r.out>> \o rest.deps,
                  missing |-> r.missing \/ rest.missing]

-----------------------------------------------------------------------------
(* Merging of entry content (pending coalescence).                         *)

toStringSlice(val) == IF val.list THEN val.v ELSE <<val.v>>

RECURSIVE Dedup(_, _)
Dedup(s, seen) ==
    IF s = <<>> THEN <<>>
    ELSE IF Head(s) \in seen THEN Dedup(Tail(s), seen)
         ELSE <<Head(s)>> \o Dedup(Tail(s), seen \cup {Head(s)})

mergeUnique(existing, incoming) ==
    IF Len(existing) = 0 THEN incoming
    ELSE Dedup(existing \o incoming, {})

mergeValue(existing, incoming) ==
    IF existing.list \/ incoming.list
    THEN List(mergeUnique(toStringSlice(existing), toStringSlice(incoming)))
    ELSE incoming

mergeEntryContent(existing, incoming) ==
    [k \in DOMAIN existing \cup DOMAIN incoming |->
        IF k \in DOMAIN existing /\ k \in DOMAIN incoming
        THEN mergeValue(existing[k], incoming[k])
        ELSE IF k \in DOMAIN incoming THEN incoming[k] ELSE existing[k]]

-----------------------------------------------------------------------------
(* The target writer (storeDestinationLDAP).  The target directory maps a  *)
(* normalized DN to its attributes; an attribute name is kept in lower     *)
(* case, as the directory matches names without regard to case.            *)

AttrNames == {"cn", "description", "member", "memberUid", "memberuid", "objectClass"}

\* strings.ToLower on the attribute names of the model
attrLower(a) ==
    CASE a = "memberUid" -> "memberuid"
      [] a = "objectClass" -> "objectclass"
      [] OTHER -> a

mergeAttributes == {"memberuid"}

\* mutant: the attribute name is looked up as it is written
isMergeAttrExact(attr) == attr \in mergeAttributes

isMergeAttr(attr) == attrLower(attr) \in mergeAttributes

isSliceValue(val) == val.list

\* mutant: the read asks for every attribute
searchAttrsAll == {"dn"} \cup {attrLower(a) : a \in AttrNames}

\* the attributes the base-scope read of the entry asks for
searchAttrs == {"dn"} \cup mergeAttributes

\* the entry the read returns: the attributes asked for, of those it has
entryData(held) == [n \in DOMAIN held \cap searchAttrs |-> held[n]]

getEntryAttributeValues(entry, attr) ==
    IF attrLower(attr) \in DOMAIN entry THEN entry[attrLower(attr)] ELSE <<>>

\* the supplied content as attribute -> sequence of strings
attributesOf(content) == [a \in DOMAIN content |-> toStringSlice(content[a])]

aggregateAttrs(content) == {a \in DOMAIN content : isSliceValue(content[a])}

DefaultObjectClass ==
    << <<"t", "o", "p">>,
       <<"i", "n", "e", "t", "O", "r", "g", "P", "e", "r", "s", "o", "n">> >>

\* the values the MODIFY request carries for each supplied attribute
mergedAttributes(found, content) ==
    [a \in DOMAIN content |->
        LET values   == attributesOf(content)[a]
            existing == getEntryAttributeValues(found, a)
        IN IF /\ isMergeAttr(a) \/ a \in aggregateAttrs(content)
              /\ Len(values) # 0
              /\ Len(existing) # 0
           THEN mergeUnique(existing, values)
           ELSE values]

\* the directory after the ADD request
addEntry(content) ==
    LET attrs == attributesOf(content)
        named == {attrLower(a) : a \in DOMAIN attrs}
        all   == IF "objectClass" \in DOMAIN attrs THEN named
                 ELSE named \cup {"objectclass"}
    IN [n \in all |->
           IF n \in named THEN attrs[CHOOSE a \in DOMAIN attrs : attrLower(a) = n]
           ELSE DefaultObjectClass]

\* the directory after the MODIFY request: every supplied attribute is
\* replaced; a replace that carries no value deletes the attribute
modifyEntry(held, values) ==
    LET named   == {attrLower(a) : a \in DOMAIN values}
        valueOf(n) == values[CHOOSE a \in DOMAIN values : attrLower(a) = n]
        deleted == {n \in named : Len(valueOf(n)) = 0}
    IN [n \in (DOMAIN held \cup named) \ deleted |->
           IF n \in named THEN valueOf(n) ELSE held[n]]

\* the directory accepts the request: an ADD cannot carry an attribute with
\* no value
accepts(dir, entry) ==
    normalizeDN(entry.DN) \in DOMAIN dir
    \/ \A a \in DOMAIN entry.Content : Len(attributesOf(entry.Content)[a]) # 0

\* mutant: the entry is added whether or not the read found it
storeDestinationLDAPAddOnly(dir, entry) ==
    [k \in DOMAIN dir \cup {normalizeDN(entry.DN)} |->
        IF k = normalizeDN(entry.DN) THEN addEntry(entry.Content) ELSE dir[k]]

\* the target directory after a successful storeDestinationLDAP(entry)
storeDestinationLDAP(dir, entry) ==
    LET key == normalizeDN(entry.DN)
    IN IF key \notin DOMAIN dir
       THEN [k \in DOMAIN dir \cup {key} |->
                IF k = key THEN addEntry(entry.Content) ELSE dir[k]]
       ELSE [dir EXCEPT ![key] =
                modifyEntry(@, mergedAttributes(entryData(@), entry.Content))]

-----------------------------------------------------------------------------
(* Hook responses the dispatcher hands to processHookResponse.             *)

NameP == <<"p">>
TemplateDN == <<"$", "p">>                 \* uid=$pidUidMap.42,ou=u,dc=x
AliceDN == <<"A">>                         \* what TemplateDN resolves to, in upper case
MixedDep == <<"$", "p", "$", "u">>         \* one string with two placeholders

Value(s) == [null |-> FALSE, v |-> s]
Null == [null |-> TRUE, v |-> <<>>]

Entry(dn, content) == [DN |-> dn, Content |-> content]

\* a decoded HookResponse with all its parts
FullResponse(b, t, d, ds, reset) ==
    [Bindings |-> b, Transformed |-> t, Dependencies |-> d, Derived |-> ds,
     Reset |-> reset]

\* a response for the resolver only
Response(b, t, d) == FullResponse(b, t, d, <<>>, FALSE)

BindValue == Response([k \in {NameP} |-> Value(<<"a">>)], <<>>, <<>>)
BindNull == Response([k \in {NameP} |-> Null], <<>>, <<>>)
\* the user entry: no dependencies, no placeholders
UserEntry == Response(EmptyMap, <<Entry(AliceDN, EmptyMap)>>, <<>>)
\* the group entry: depends on the user entry (DN in another case, with a space)
GroupEntry == Response(EmptyMap,
                       <<Entry(<<"g">>, [k \in {"cn"} |-> Scalar(<<"g">>)])>>,
                       <<<<"a", " ">>>>)
\* an entry whose DN is a template and whose dependency is that same template
TemplateEntry == Response(EmptyMap, <<Entry(TemplateDN, EmptyMap)>>, <<TemplateDN>>)
\* the group again (DN in upper case) with a templated member list and a
\* dependency string that names two bindings
MemberEntry == Response(EmptyMap,
                        <<Entry(<<"G">>, [k \in {"member"} |->
                                             List(<<TemplateDN, <<"o">>>>)])>>,
                        <<MixedDep>>)

\* an entry that names the binding in a scalar, in a list element and in its
\* dependency
OptionalEntry == Response(EmptyMap,
                          <<Entry(<<"h">>, [k \in {"description", "memberUid"} |->
                                               IF k = "description" THEN Scalar(TemplateDN)
                                               ELSE List(<<TemplateDN, <<"o">>>>)])>>,
                          <<TemplateDN>>)

\* updates of two names in one call, and an entry that names both in its
\* DN, its content and its dependency
NameU == <<"u">>
BindPair ==
    Response([k \in {NameP, NameU} |-> IF k = NameP THEN Value(<<"a">>) ELSE Null],
             <<>>, <<>>)
BindSwap ==
    Response([k \in {NameP, NameU} |-> IF k = NameU THEN Value(<<"b">>) ELSE Null],
             <<>>, <<>>)
PairEntry ==
    Response(EmptyMap,
             <<Entry(<<"$", "u">>, [k \in {"member"} |->
                                      List(<<TemplateDN, <<"$", "u">>>>)])>>,
             <<MixedDep>>)

\* an entry that waits for the DN PairEntry resolves to
WaitingEntry ==
    Response(EmptyMap, <<Entry(<<"g">>, [k \in {"cn"} |-> Scalar(<<"g">>)])>>,
             <<<<"$", "u">>>>)

SnapshotResponses == {BindPair, BindSwap, PairEntry, WaitingEntry}

\* entries handed straight to the target writer: the same DN in two
\* spellings, sequences and scalars, memberUid under two spellings of its
\* name, an empty sequence, and a DN of white space only
ValX == <<"x">>
ValY == <<"y">>

WriteFirst ==
    Response(EmptyMap,
             <<Entry(<<"A">>, [k \in {"cn", "member", "memberUid"} |->
                                  IF k = "cn" THEN Scalar(ValX) ELSE List(<<ValX>>)])>>,
             <<>>)

WriteSecond ==
    Response(EmptyMap,
             <<Entry(<<"a", " ">>, [k \in {"cn", "member", "memberuid"} |->
                                       IF k = "cn" THEN Scalar(ValY)
                                       ELSE IF k = "member" THEN List(<<ValY>>)
                                       ELSE List(<<ValY, ValX>>)])>>,
             <<>>)

WriteEmpty ==
    Response(EmptyMap, <<Entry(<<"A">>, [k \in {"memberUid"} |-> List(<<>>)])>>, <<>>)

WriteBlank ==
    Response(EmptyMap, <<Entry(<<" ">>, [k \in {"cn"} |-> Scalar(ValX)])>>, <<>>)

\* an entry that brings its own objectClass
WriteClass ==
    Response(EmptyMap, <<Entry(<<"A">>, [k \in {"objectClass"} |-> List(<<ValX>>)])>>, <<>>)

WriterResponses == {WriteFirst, WriteSecond, WriteEmpty, WriteBlank, WriteClass}

\* entries of one DN (in two spellings) that wait for another DN: their
\* contents overlap in scalars, in sequences (one of them empty, one with a
\* value twice) and in a key that is a scalar on one side only
MergeA ==
    Response(EmptyMap,
             <<Entry(<<"g">>, [k \in {"cn", "member", "memberUid"} |->
                                  IF k = "cn" THEN Scalar(ValX)
                                  ELSE IF k = "member" THEN List(<<ValX>>)
                                  ELSE List(<<>>)])>>,
             <<<<"a">>>>)
MergeB ==
    Response(EmptyMap,
             <<Entry(<<"G">>, [k \in {"cn", "member", "memberUid", "description"} |->
                                  IF k = "member" THEN List(<<ValY, ValX>>)
                                  ELSE IF k = "memberUid" THEN List(<<ValX, ValX>>)
                                  ELSE Scalar(ValY)])>>,
             <<<<"b">>>>)
MergeC ==
    Response(EmptyMap,
             <<Entry(<<"g">>, [k \in {"cn", "member"} |->
                                  IF k = "cn" THEN List(<<ValY>>) ELSE Scalar(ValY)])>>,
             <<<<"a">>>>)

MergeResponses == {MergeA, MergeB, MergeC, UserEntry, BindValue}

\* two entries of one response that each name the other's DN as dependency
CyclePair ==
    Response(EmptyMap,
             <<Entry(<<"c">>, [k \in {"cn"} |-> Scalar(ValX)]),
               Entry(<<"D">>, [k \in {"cn"} |-> Scalar(ValY)])>>,
             <<<<"d">>, <<"C">>>>)
\* an entry nothing depends on, and an entry that depends on it
LeafEntry == Response(EmptyMap, <<Entry(<<"o">>, EmptyMap)>>, <<>>)
ParentEntry == Response(EmptyMap,
                        <<Entry(<<"h">>, [k \in {"cn"} |-> Scalar(ValX)])>>,
                        <<<<"o">>>>)

\* the group entry depends on a DN that no response of this set writes
CycleResponses == {CyclePair, GroupEntry, BindValue, LeafEntry, ParentEntry}

Responses == {BindValue, BindNull, UserEntry, GroupEntry, TemplateEntry, MemberEntry,
              OptionalEntry}

-----------------------------------------------------------------------------
(* Call frames.                                                            *)

NoEntry == Entry(<<>>, EmptyMap)

\* next and nextDerived are the positions of the two loops
PHFrame(resp, next) ==
    [op |-> "processHookResponse", pc |-> "parts", resp |-> resp, next |-> next,
     nextDerived |-> 1]

UBFrame(newBindings) == [op |-> "updateBindings", pc |-> "lock",
                         newBindings |-> newBindings]

RPFrame == [op |-> "reprocessPending", pc |-> "drain", entries |-> {}]

HEFrame(entry, deps) ==
    [op |-> "handleEntry", pc |-> "absorb", entry |-> entry, rawDeps |-> deps,
     snapB |-> EmptyMap, snapN |-> {}, resolvedEntry |-> NoEntry,
     entryMissing |-> FALSE, depsMissing |-> FALSE, depSet |-> {}]

MSFrame(dn) ==
    [op |-> "markSyncedAndRelease", pc |-> "lock", dn |-> dn, ready |-> {},
     snapB |-> EmptyMap, snapN |-> {}, entry |-> NoEntry, rawDeps |-> <<>>,
     resolvedEntry |-> NoEntry, depSet |-> {}]

Top(st) == st[Len(st)]
Pop(st) == SubSeq(st, 1, Len(st) - 1)
SetTop(st, f) == [st EXCEPT ![Len(st)] = f]

\* mutant: the derived searches are taken before the transformed entries
nextPartDerivedFirst(c) ==
    IF c.nextDerived <= Len(c.resp.Derived) THEN "derived"
    ELSE IF c.next <= Len(c.resp.Transformed) THEN "transformed"
    ELSE IF c.resp.Reset THEN "reset"
    ELSE "return"

\* what processHookResponse does next once the bindings are applied: the
\* loop over the transformed entries, the loop over the derived searches,
\* the reset directive, the return
nextPart(c) ==
    IF c.next <= Len(c.resp.Transformed) THEN "transformed"
    ELSE IF c.nextDerived <= Len(c.resp.Derived) THEN "derived"
    ELSE IF c.resp.Reset THEN "reset"
    ELSE "return"

\* Control is back in the top frame after a call it made has returned (or,
\* for processHookResponse, at its start): the frame goes on.  A frame with
\* nothing left to do returns as well.
RECURSIVE Resume(_)
Resume(st) ==
    IF st = <<>> THEN <<>>
    ELSE LET c == Top(st) IN
         CASE c.op = "processHookResponse" ->
                  IF nextPart(c) = "transformed"
                  THEN Append(SetTop(st, [c EXCEPT !.next = @ + 1]),
                              HEFrame(c.resp.Transformed[c.next], c.resp.Dependencies))
                  ELSE IF nextPart(c) = "return" THEN Resume(Pop(st))
                  ELSE st
           [] c.op = "reprocessPending" ->
                  IF c.entries = {} THEN Resume(Pop(st)) ELSE st
           [] c.op = "markSyncedAndRelease" ->
                  IF c.ready = {} THEN Resume(Pop(st))
                  ELSE SetTop(st, [c EXCEPT !.pc = "loop"])
           [] OTHER -> Resume(Pop(st))

\* the top frame returns to its caller
Return(st) == Resume(Pop(st))

-----------------------------------------------------------------------------
(* The pieces of the critical sections.                                    *)

\* a pendingEntry; depSet is a history field: the resolved dependency set of
\* the handleEntry pass that installed the entry (deps is what is left of it)
PendingEntry(entry, deps, rawDeps, depSet) ==
    [entry |-> entry, deps |-> deps, rawDeps |-> rawDeps, depSet |-> depSet]

Remove(f, k) == [x \in DOMAIN f \ {k} |-> f[x]]
Put(f, k, v) == [x \in DOMAIN f \cup {k} |-> IF x = k THEN v ELSE f[x]]

\* delete parentKey from reverse[d] for every d in deps, dropping emptied keys
RemoveEdges(rev, deps, parentKey) ==
    LET cut(d) == IF d \in deps THEN rev[d] \ {parentKey} ELSE rev[d]
    IN [d \in {x \in DOMAIN rev : cut(x) # {}} |-> cut(d)]

\* mutant: the reverse edges of a new pending entry are not recorded
AddEdgesNone(rev, missing, parentKey) == rev

\* add parentKey to reverse[d] for every d in missing
AddEdges(rev, missing, parentKey) ==
    [d \in DOMAIN rev \cup missing |->
        (IF d \in DOMAIN rev THEN rev[d] ELSE {})
        \cup (IF d \in missing THEN {parentKey} ELSE {})]

depSetOf(resolvedDeps, parentKey) ==
    {normalizeDN(d) : d \in Range(resolvedDeps)} \ {<<>>, parentKey}

\* mutant: the check against synced is skipped
missingOfNoCheck(depSet, syn) == {}

missingOf(depSet, syn) == {d \in depSet : d \notin syn}

\* mutant: missing dependencies do not hold an entry back
storeNowUnchecked(missing, entryMissing, depsMissing) ==
    ~entryMissing /\ ~depsMissing

storeNow(missing, entryMissing, depsMissing) ==
    missing = {} /\ ~entryMissing /\ ~depsMissing

applyBindings(b, new) ==
    LET set == {k \in DOMAIN new : ~new[k].null}
        nul == {k \in DOMAIN new : new[k].null}
    IN [k \in (DOMAIN b \ nul) \cup set |-> IF k \in set THEN new[k].v ELSE b[k]]

\* mutant: a name that gets a value is not taken out of nullBindings
applyNullBindingsKeep(nb, new) == nb \cup {k \in DOMAIN new : new[k].null}

applyNullBindings(nb, new) ==
    (nb \cup {k \in DOMAIN new : new[k].null}) \ {k \in DOMAIN new : ~new[k].null}

\* mutant: the lock is keyed by the DN as written
getDNLockRaw(dn) == dn

\* mutant: the null-marked names are not copied
getBindingsSnapshotValues(b, nb) == [b |-> b, nb |-> {}]

\* getBindingsSnapshot: both maps are copied under one read lock
getBindingsSnapshot(b, nb) == [b |-> b, nb |-> nb]

getDNLock(dn) == IF normalizeDN(dn) = <<>> THEN dn ELSE normalizeDN(dn)

-----------------------------------------------------------------------------
(* Initial state and actions.                                              *)

NoReplay == [phase |-> 0]

NoCall == [op |-> "none"]

NoPost == [pc |-> "idle"]

SearchInit ==
    /\ searches = EmptyMap
    /\ specs = EmptyMap
    /\ searchResults = EmptyMap
    /\ chans = 0
    /\ closed = {}
    /\ tasks = EmptyMap
    /\ calls = [t \in Callers |-> NoCall]
    /\ issued = 0
    /\ emitted = EmptyMap
    /\ crashed = FALSE
    /\ post = NoPost
    /\ mutex = [holder |-> 0, walk |-> [t \in Threads |-> <<>>]]

Init ==
    /\ stack = [t \in Threads |-> <<>>]
    /\ started = 0
    /\ bindings = EmptyMap
    /\ nullBindings = {}
    /\ synced = {}
    /\ pending = EmptyMap
    /\ reverse = EmptyMap
    /\ dnLocks = {}
    /\ written = {}
    /\ failures = 0
    /\ target = EmptyMap
    /\ replay = NoReplay
    /\ SearchInit

Running(t, op, pc) ==
    /\ stack[t] # <<>>
    /\ Top(stack[t]).op = op
    /\ Top(stack[t]).pc = pc

\* processHookResponse: a hook goroutine takes a decoded response; the
\* bindings come first, then the transformed entries in order
Begin(t, resp) ==
    /\ stack[t] = <<>>
    /\ started < MaxResponses
    /\ started' = started + 1
    /\ stack' = [stack EXCEPT ![t] =
                    IF DOMAIN resp.Bindings # {}
                    THEN <<PHFrame(resp, 1), UBFrame(resp.Bindings)>>
                    ELSE Resume(<<PHFrame(resp, 1)>>)]
    /\ UNCHANGED <<bindings, nullBindings, synced, pending, reverse, dnLocks,
                   written, failures, target, searchVars>>

ProcessHookResponse(t, resp) == Begin(t, resp) /\ UNCHANGED replay

\* updateBindings: the critical section under bindingsMu, then the call of
\* reprocessPending
UpdateBindings(t) ==
    /\ Running(t, "updateBindings", "lock")
    /\ LET f == Top(stack[t]) IN
       IF DOMAIN f.newBindings = {}
       THEN /\ stack' = [stack EXCEPT ![t] = Return(@)]
            /\ UNCHANGED <<bindings, nullBindings>>
       ELSE /\ bindings' = applyBindings(bindings, f.newBindings)
            /\ nullBindings' = applyNullBindings(nullBindings, f.newBindings)
            /\ stack' = [stack EXCEPT ![t] =
                            Append(SetTop(@, [f EXCEPT !.pc = "reprocess"]), RPFrame)]
    /\ UNCHANGED <<started, synced, pending, reverse, dnLocks, written, failures,
                   target, replay, searchVars>>

\* mutant: the drained entries stay in pending as well
drainedPendingKept(pend) == pend

\* pending after the drain: every key is deleted
drainedPending(pend) == EmptyMap

\* reprocessPending: the critical section that drains pending
ReprocessDrain(t) ==
    /\ Running(t, "reprocessPending", "drain")
    /\ LET f == Top(stack[t])
           drained == {pending[k] : k \in DOMAIN pending}
           edgesCut(d) == reverse[d] \ {k \in DOMAIN pending : d \in pending[k].deps}
       IN /\ pending' = drainedPending(pending)
          /\ reverse' = [d \in {x \in DOMAIN reverse : edgesCut(x) # {}} |-> edgesCut(d)]
          /\ stack' = [stack EXCEPT ![t] =
                          IF drained = {} THEN Return(@)
                          ELSE SetTop(@, [f EXCEPT !.pc = "loop", !.entries = drained])]
    /\ UNCHANGED <<started, bindings, nullBindings, synced, dnLocks, written, failures,
                   target, replay, searchVars>>

\* reprocessPending: the loop hands the next drained entry to handleEntry
ReprocessNext(t) ==
    /\ Running(t, "reprocessPending", "loop")
    /\ \E p \in Top(stack[t]).entries :
          stack' = [stack EXCEPT ![t] =
                       Append(SetTop(@, [Top(@) EXCEPT !.entries = @ \ {p}]),
                              HEFrame(p.entry, p.rawDeps))]
    /\ UNCHANGED <<started, bindings, nullBindings, synced, pending, reverse,
                   dnLocks, written, failures,
                   target, replay, searchVars>>

\* mutant: an entry with an empty DN is let through
rejectedNever(parentKey) == FALSE

\* handleEntry returns at once when the normalized DN is empty
rejected(parentKey) == parentKey = <<>>

\* handleEntry, first critical section: an existing pending entry with the
\* same key is absorbed
HandleEntryAbsorb(t) ==
    /\ Running(t, "handleEntry", "absorb")
    /\ LET f == Top(stack[t])
           parentKey == normalizeDN(f.entry.DN)
       IN IF rejected(parentKey)
          THEN /\ stack' = [stack EXCEPT ![t] = Return(@)]
               /\ UNCHANGED <<pending, reverse>>
          ELSE IF parentKey \in DOMAIN pending
               THEN LET existing == pending[parentKey]
                        merged == [f.entry EXCEPT !.Content =
                                      mergeEntryContent(existing.entry.Content, @)]
                    IN /\ reverse' = RemoveEdges(reverse, existing.deps, parentKey)
                       /\ pending' = Remove(pending, parentKey)
                       /\ stack' = [stack EXCEPT ![t] = SetTop(@,
                                       [f EXCEPT !.pc = "snapshot",
                                                 !.entry = merged,
                                                 !.rawDeps = @ \o existing.rawDeps])]
               ELSE /\ stack' = [stack EXCEPT ![t] =
                                    SetTop(@, [f EXCEPT !.pc = "snapshot"])]
                    /\ UNCHANGED <<pending, reverse>>
    /\ UNCHANGED <<started, bindings, nullBindings, synced, dnLocks, written, failures,
                   target, replay, searchVars>>

\* handleEntry: the binding snapshot and the resolution of the entry and of
\* its dependencies against it
HandleEntryResolve(t) ==
    /\ Running(t, "handleEntry", "snapshot")
    /\ LET f == Top(stack[t])
           snap == getBindingsSnapshot(bindings, nullBindings)
           re == resolveEntryTemplates(f.entry, snap.b, snap.nb)
           rd == resolveDependencies(f.rawDeps, snap.b, snap.nb)
       IN stack' = [stack EXCEPT ![t] = SetTop(@,
                       [f EXCEPT !.pc = "decide",
                                 !.snapB = snap.b, !.snapN = snap.nb,
                                 !.resolvedEntry = re.entry,
                                 !.entryMissing = re.missing,
                                 !.depsMissing = rd.missing,
                                 !.depSet = depSetOf(rd.deps, normalizeDN(f.entry.DN))])]
    /\ UNCHANGED <<started, bindings, nullBindings, synced, pending, reverse,
                   dnLocks, written, failures,
                   target, replay, searchVars>>

\* handleEntry, second critical section: write now, or install the entry in
\* pending with its reverse edges
HandleEntryDecide(t) ==
    /\ Running(t, "handleEntry", "decide")
    /\ LET f == Top(stack[t])
           parentKey == normalizeDN(f.entry.DN)
           missing == missingOf(f.depSet, synced)
       IN IF storeNow(missing, f.entryMissing, f.depsMissing)
          THEN /\ stack' = [stack EXCEPT ![t] = SetTop(@, [f EXCEPT !.pc = "store"])]
               /\ UNCHANGED <<pending, reverse>>
          ELSE /\ pending' = Put(pending, parentKey,
                                 PendingEntry(f.entry, missing, f.rawDeps, f.depSet))
               /\ reverse' = AddEdges(reverse, missing, parentKey)
               /\ stack' = [stack EXCEPT ![t] = Return(@)]
    /\ UNCHANGED <<started, bindings, nullBindings, synced, dnLocks, written, failures,
                   target, replay, searchVars>>

\* storeDestinationLDAP: the per-DN lock is taken and the write begins
StoreBegin(t) ==
    /\ stack[t] # <<>>
    /\ Top(stack[t]).op \in {"handleEntry", "markSyncedAndRelease"}
    /\ Top(stack[t]).pc = "store"
    /\ LET f == Top(stack[t]) IN
       /\ getDNLock(f.resolvedEntry.DN) \notin dnLocks
       /\ dnLocks' = dnLocks \cup {getDNLock(f.resolvedEntry.DN)}
       /\ stack' = [stack EXCEPT ![t] = SetTop(@, [f EXCEPT !.pc = "storing"])]
    /\ UNCHANGED <<started, bindings, nullBindings, synced, pending, reverse,
                   written, failures,
                   target, replay, searchVars>>

Storing(t) ==
    /\ stack[t] # <<>>
    /\ Top(stack[t]).op \in {"handleEntry", "markSyncedAndRelease"}
    /\ Top(stack[t]).pc = "storing"

\* storeDestinationLDAP returns nil: the caller calls markSyncedAndRelease
StoreSucceeds(t) ==
    /\ Storing(t)
    /\ LET f == Top(stack[t]) IN
       /\ accepts(target, f.resolvedEntry)
       /\ target' = storeDestinationLDAP(target, f.resolvedEntry)
       /\ dnLocks' = dnLocks \ {getDNLock(f.resolvedEntry.DN)}
       /\ written' = written \cup {normalizeDN(f.resolvedEntry.DN)}
       /\ stack' = [stack EXCEPT ![t] =
                       Append(SetTop(@, [f EXCEPT !.pc = "mark"]),
                              MSFrame(f.resolvedEntry.DN))]
    /\ UNCHANGED <<started, bindings, nullBindings, synced, pending, reverse, failures,
                   replay, searchVars>>

\* mutant: the caller goes on as after a successful write
afterFailureMarks(st) ==
    Append(SetTop(st, [Top(st) EXCEPT !.pc = "mark"]), MSFrame(Top(st).resolvedEntry.DN))

\* the caller after "if err != nil": handleEntry logs and returns, the loop
\* of markSyncedAndRelease logs and goes on with the next ready entry
afterFailure(st) == IF Top(st).op = "handleEntry" THEN Return(st) ELSE Resume(st)

\* storeDestinationLDAP returns an error: it is logged and the entry dropped
StoreFails(t) ==
    /\ Storing(t)
    /\ failures < MaxFailures \/ ~accepts(target, Top(stack[t]).resolvedEntry)
    /\ failures' = IF failures < MaxFailures THEN failures + 1 ELSE failures
    /\ LET f == Top(stack[t]) IN
       /\ dnLocks' = dnLocks \ {getDNLock(f.resolvedEntry.DN)}
       /\ stack' = [stack EXCEPT ![t] = afterFailure(@)]
    /\ UNCHANGED <<started, bindings, nullBindings, synced, pending, reverse, written,
                   target, replay, searchVars>>

\* mutant: the ready parents stay in pending
afterReleaseKeep(pend, rel, readyKeys) ==
    [k \in DOMAIN pend |-> IF k \in DOMAIN rel THEN rel[k] ELSE pend[k]]

\* pending after the release: the ready parents are deleted, the others keep
\* what is left of their missing sets
afterRelease(pend, rel, readyKeys) ==
    [k \in DOMAIN pend \ readyKeys |-> IF k \in DOMAIN rel THEN rel[k] ELSE pend[k]]

\* the parents of dnKey that are still pending, with dnKey taken out of
\* their missing sets
releasedParents(pend, parents, dnKey) ==
    [k \in parents \cap DOMAIN pend |-> [pend[k] EXCEPT !.deps = @ \ {dnKey}]]

\* markSyncedAndRelease, the critical section: the DN joins synced, its
\* reverse edges are consumed and the parents left with no missing
\* dependency are taken out of pending
MarkSyncedLock(t) ==
    /\ Running(t, "markSyncedAndRelease", "lock")
    /\ LET f == Top(stack[t])
           dnKey == normalizeDN(f.dn)
       IN IF dnKey = <<>> \/ dnKey \in synced
          THEN /\ stack' = [stack EXCEPT ![t] = Return(@)]
               /\ UNCHANGED <<synced, pending, reverse>>
          ELSE LET parents == IF dnKey \in DOMAIN reverse THEN reverse[dnKey] ELSE {}
                   rel == releasedParents(pending, parents, dnKey)
                   readyKeys == {k \in DOMAIN rel : rel[k].deps = {}}
               IN /\ synced' = synced \cup {dnKey}
                  /\ reverse' = Remove(reverse, dnKey)
                  /\ pending' = afterRelease(pending, rel, readyKeys)
                  /\ stack' = [stack EXCEPT ![t] = SetTop(@,
                                  [f EXCEPT !.pc = "release",
                                            !.ready = {rel[k] : k \in readyKeys}])]
    /\ UNCHANGED <<started, bindings, nullBindings, dnLocks, written, failures,
                   target, replay, searchVars>>

\* markSyncedAndRelease after the unlock: nothing to release, or the binding
\* snapshot for the ready entries
MarkSyncedSnapshot(t) ==
    /\ Running(t, "markSyncedAndRelease", "release")
    /\ LET f == Top(stack[t]) IN
       stack' = [stack EXCEPT ![t] =
                    IF f.ready = {} THEN Return(@)
                    ELSE SetTop(@, [f EXCEPT !.pc = "loop", !.snapB = bindings,
                                             !.snapN = nullBindings])]
    /\ UNCHANGED <<started, bindings, nullBindings, synced, pending, reverse,
                   dnLocks, written, failures,
                   target, replay, searchVars>>

\* markSyncedAndRelease, one turn of the loop over ready: an entry that
\* still misses bindings goes back to handleEntry, any other is written
MarkSyncedNext(t) ==
    /\ Running(t, "markSyncedAndRelease", "loop")
    /\ \E p \in Top(stack[t]).ready :
          LET f == Top(stack[t])
              re == resolveEntryTemplates(p.entry, f.snapB, f.snapN)
              g == [f EXCEPT !.ready = @ \ {p}, !.entry = p.entry,
                             !.rawDeps = p.rawDeps, !.depSet = p.depSet,
                             !.resolvedEntry = re.entry]
          IN stack' = [stack EXCEPT ![t] =
                          IF re.missing
                          THEN Append(SetTop(@, g), HEFrame(p.entry, p.rawDeps))
                          ELSE SetTop(@, [g EXCEPT !.pc = "store"])]
    /\ UNCHANGED <<started, bindings, nullBindings, synced, pending, reverse,
                   dnLocks, written, failures,
                   target, replay, searchVars>>

Next ==
    \E t \in Threads :
        \/ \E resp \in Responses : ProcessHookResponse(t, resp)
        \/ UpdateBindings(t)
        \/ ReprocessDrain(t)
        \/ ReprocessNext(t)
        \/ HandleEntryAbsorb(t)
        \/ HandleEntryResolve(t)
        \/ HandleEntryDecide(t)
        \/ StoreBegin(t)
        \/ StoreSucceeds(t)
        \/ StoreFails(t)
        \/ MarkSyncedLock(t)
        \/ MarkSyncedSnapshot(t)
        \/ MarkSyncedNext(t)

Spec == Init /\ [][Next]_vars

\* the same program with a single hook goroutine: every call runs to
\* completion before the next response is taken
NextSeq ==
    \/ \E resp \in Responses : ProcessHookResponse(1, resp)
    \/ UpdateBindings(1)
    \/ ReprocessDrain(1)
    \/ ReprocessNext(1)
    \/ HandleEntryAbsorb(1)
    \/ HandleEntryResolve(1)
    \/ HandleEntryDecide(1)
    \/ StoreBegin(1)
    \/ StoreSucceeds(1)
    \/ StoreFails(1)
    \/ MarkSyncedLock(1)
    \/ MarkSyncedSnapshot(1)
    \/ MarkSyncedNext(1)

SpecSeq == Init /\ [][NextSeq]_vars

\* the resolver and target state a hook response leaves behind
ResolverState ==
    [synced |-> synced, pending |-> pending, reverse |-> reverse, target |-> target]

\* the dispatcher delivers a response ...
ReplayFirst(resp) ==
    /\ replay.phase = 0
    /\ Begin(1, resp)
    /\ replay' = [phase |-> 1, resp |-> resp, at |-> started + 1]

\* ... and, once processHookResponse has returned, the same response again
ReplaySecond ==
    /\ replay.phase = 1
    /\ Begin(1, replay.resp)
    /\ started = replay.at
    /\ replay' = [phase |-> 2, resp |-> replay.resp, at |-> started + 1,
                  first |-> ResolverState]

\* one hook goroutine to which a response is delivered twice in a row
NextTwice ==
    \/ NextSeq
    \/ \E resp \in Responses : ReplayFirst(resp)
    \/ ReplaySecond

SpecTwice == Init /\ [][NextTwice]_vars

\* the hook goroutines with responses that carry entries for the target
\* writer only: no bindings, no dependencies
\* concurrent updates of two names at once
NextSnapshot ==
    \E t \in Threads :
        \/ \E resp \in SnapshotResponses : ProcessHookResponse(t, resp)
        \/ UpdateBindings(t)
        \/ ReprocessDrain(t)
        \/ ReprocessNext(t)
        \/ HandleEntryAbsorb(t)
        \/ HandleEntryResolve(t)
        \/ HandleEntryDecide(t)
        \/ StoreBegin(t)
        \/ StoreSucceeds(t)
        \/ StoreFails(t)
        \/ MarkSyncedLock(t)
        \/ MarkSyncedSnapshot(t)
        \/ MarkSyncedNext(t)

SpecSnapshot == Init /\ [][NextSnapshot]_vars

\* the hook goroutines with entries that coalesce in pending
NextMerge ==
    \E t \in Threads :
        \/ \E resp \in MergeResponses : ProcessHookResponse(t, resp)
        \/ UpdateBindings(t)
        \/ ReprocessDrain(t)
        \/ ReprocessNext(t)
        \/ HandleEntryAbsorb(t)
        \/ HandleEntryResolve(t)
        \/ HandleEntryDecide(t)
        \/ StoreBegin(t)
        \/ StoreSucceeds(t)
        \/ StoreFails(t)
        \/ MarkSyncedLock(t)
        \/ MarkSyncedSnapshot(t)
        \/ MarkSyncedNext(t)

SpecMerge == Init /\ [][NextMerge]_vars

\* the hook goroutines with a dependency cycle and a dangling dependency
NextCycle ==
    \E t \in Threads :
        \/ \E resp \in CycleResponses : ProcessHookResponse(t, resp)
        \/ UpdateBindings(t)
        \/ ReprocessDrain(t)
        \/ ReprocessNext(t)
        \/ HandleEntryAbsorb(t)
        \/ HandleEntryResolve(t)
        \/ HandleEntryDecide(t)
        \/ StoreBegin(t)
        \/ StoreSucceeds(t)
        \/ StoreFails(t)
        \/ MarkSyncedLock(t)
        \/ MarkSyncedSnapshot(t)
        \/ MarkSyncedNext(t)

SpecCycle == Init /\ [][NextCycle]_vars

NextWriter ==
    \E t \in Threads :
        \/ \E resp \in WriterResponses : ProcessHookResponse(t, resp)
        \/ HandleEntryAbsorb(t)
        \/ HandleEntryResolve(t)
        \/ HandleEntryDecide(t)
        \/ StoreBegin(t)
        \/ StoreSucceeds(t)
        \/ StoreFails(t)
        \/ MarkSyncedLock(t)
        \/ MarkSyncedSnapshot(t)

SpecWriter == Init /\ [][NextWriter]_vars

-----------------------------------------------------------------------------
(* The resolver mutex d.mu.  The calls of handleEntry, reprocessPending    *)
(* and markSyncedAndRelease are followed from Lock to Unlock, with the     *)
(* outcome of every test of the code left open: mutex.walk[t] is the stack *)
(* of the calls of goroutine t, each with the place it has reached and the *)
(* number of entries its loop has left.                                    *)

MxFrame(fn, at, left) == [fn |-> fn, at |-> at, left |-> left]

\* the first statement of a call
MxEnter(fn) == MxFrame(fn, IF fn = "handleEntry" THEN "lock1" ELSE "lock", 0)

\* the places where d.mu is held
Holding == {"absorb", "decide", "collect", "drain"}

\* a call returns; handleEntry returns as soon as its call of
\* markSyncedAndRelease does
RECURSIVE MxReturn(_)
MxReturn(st) ==
    LET rest == Pop(st) IN
    IF rest # <<>> /\ Top(rest).fn = "handleEntry" /\ Top(rest).at = "mark"
    THEN MxReturn(rest)
    ELSE rest

Walking(t, fn, at) ==
    /\ mutex.walk[t] # <<>>
    /\ Top(mutex.walk[t]).fn = fn
    /\ Top(mutex.walk[t]).at = at

\* the stack of t becomes st, the mutex goes to holder
MxGo(t, st, holder) ==
    /\ mutex' = [holder |-> holder, walk |-> [mutex.walk EXCEPT ![t] = st]]
    /\ UNCHANGED <<resolverVars, replay, searches, specs, searchResults, chans, closed,
                   tasks, calls, issued, emitted, crashed, post>>

MxAt(t, at) == SetTop(mutex.walk[t], [Top(mutex.walk[t]) EXCEPT !.at = at])

MxCalls(st, fn) == Append(st, MxEnter(fn))

\* mutant: handleEntry keeps the mutex when it goes on to the target write
unlockedButForStore(t, at) == IF at = "store" THEN t ELSE 0

\* d.mu.Unlock() at the end of a critical section, whatever comes next
unlocked(t, at) == 0

\* processHookResponse calls handleEntry, updateBindings calls
\* reprocessPending
MxBegin(t, fn) ==
    /\ mutex.walk[t] = <<>>
    /\ MxGo(t, <<MxEnter(fn)>>, mutex.holder)

\* handleEntry returns at once for an empty DN, markSyncedAndRelease too
MxEmptyDN(t) ==
    /\ \/ Walking(t, "handleEntry", "lock1")
       \/ Walking(t, "markSyncedAndRelease", "lock")
    /\ MxGo(t, MxReturn(mutex.walk[t]), mutex.holder)

\* d.mu.Lock(): the goroutine waits until the mutex is free
MxLock(t) ==
    /\ mutex.walk[t] # <<>>
    /\ Top(mutex.walk[t]).at \in {"lock1", "lock2", "lock"}
    /\ mutex.holder = 0
    /\ LET f == Top(mutex.walk[t])
           at == IF f.at = "lock1" THEN "absorb"
                 ELSE IF f.at = "lock2" THEN "decide"
                 ELSE IF f.fn = "reprocessPending" THEN "drain"
                 ELSE "collect"
       IN MxGo(t, MxAt(t, at), t)

\* handleEntry, first critical section: a pending entry is absorbed or not
MxAbsorb(t) ==
    /\ Walking(t, "handleEntry", "absorb")
    /\ MxGo(t, MxAt(t, "snapshot"), unlocked(t, "snapshot"))

\* getBindingsSnapshot and the resolution against it
MxSnapshot(t) ==
    \/ /\ Walking(t, "handleEntry", "snapshot")
       /\ MxGo(t, MxAt(t, "lock2"), mutex.holder)
    \/ /\ Walking(t, "markSyncedAndRelease", "snapshot")
       /\ MxGo(t, MxAt(t, "loop"), mutex.holder)

\* handleEntry, second critical section: the entry is to be written
MxDecideStore(t) ==
    /\ Walking(t, "handleEntry", "decide")
    /\ MxGo(t, MxAt(t, "store"), unlocked(t, "store"))

\* handleEntry, second critical section: the entry is installed in pending
MxDecideDefer(t) ==
    /\ Walking(t, "handleEntry", "decide")
    /\ MxGo(t, MxReturn(mutex.walk[t]), unlocked(t, "return"))

\* handleEntry: storeDestinationLDAP fails and the call returns, or it
\* succeeds and markSyncedAndRelease is called
MxStore(t, ok) ==
    /\ Walking(t, "handleEntry", "store")
    /\ IF ok
       THEN /\ Len(mutex.walk[t]) < MaxDepth + 1
            /\ MxGo(t, MxCalls(MxAt(t, "mark"), "markSyncedAndRelease"), mutex.holder)
       ELSE MxGo(t, MxReturn(mutex.walk[t]), mutex.holder)

\* markSyncedAndRelease, critical section: the DN is synced already, or n
\* entries are ready
MxCollect(t, known, n) ==
    /\ Walking(t, "markSyncedAndRelease", "collect")
    /\ IF known \/ n = 0
       THEN MxGo(t, MxReturn(mutex.walk[t]), unlocked(t, "return"))
       ELSE MxGo(t, SetTop(mutex.walk[t],
                           MxFrame("markSyncedAndRelease", "snapshot", n)),
                 unlocked(t, "snapshot"))

\* reprocessPending, critical section: n entries are drained
MxDrain(t, n) ==
    /\ Walking(t, "reprocessPending", "drain")
    /\ IF n = 0
       THEN MxGo(t, MxReturn(mutex.walk[t]), unlocked(t, "return"))
       ELSE MxGo(t, SetTop(mutex.walk[t], MxFrame("reprocessPending", "loop", n)),
                 unlocked(t, "loop"))

\* the loops over the entries taken along: the loop is over, or the next
\* entry is handed to handleEntry (reprocessPending; markSyncedAndRelease
\* when a binding is missing), or it is written and, if the write succeeds,
\* markSyncedAndRelease is called for it
MxLoop(t, what) ==
    /\ mutex.walk[t] # <<>>
    /\ Top(mutex.walk[t]).at = "loop"
    /\ LET f == Top(mutex.walk[t])
           less == SetTop(mutex.walk[t], [f EXCEPT !.left = @ - 1])
       IN IF f.left = 0
          THEN what = "end" /\ MxGo(t, MxReturn(mutex.walk[t]), mutex.holder)
          ELSE \/ /\ what = "handleEntry"
                  /\ Len(mutex.walk[t]) < MaxDepth + 1
                  /\ MxGo(t, MxCalls(less, "handleEntry"), mutex.holder)
               \/ /\ what = "failed"
                  /\ f.fn = "markSyncedAndRelease"
                  /\ MxGo(t, less, mutex.holder)
               \/ /\ what = "stored"
                  /\ f.fn = "markSyncedAndRelease"
                  /\ Len(mutex.walk[t]) < MaxDepth + 1
                  /\ MxGo(t, MxCalls(less, "markSyncedAndRelease"), mutex.holder)

NextMutex ==
    \E t \in Threads :
        \/ \E fn \in {"handleEntry", "reprocessPending"} : MxBegin(t, fn)
        \/ MxEmptyDN(t)
        \/ MxLock(t)
        \/ MxAbsorb(t)
        \/ MxSnapshot(t)
        \/ MxDecideStore(t)
        \/ MxDecideDefer(t)
        \/ \E ok \in BOOLEAN : MxStore(t, ok)
        \/ \E known \in BOOLEAN, n \in 0..MaxReady : MxCollect(t, known, n)
        \/ \E n \in 0..MaxReady : MxDrain(t, n)
        \/ \E what \in {"end", "handleEntry", "failed", "stored"} : MxLoop(t, what)

SpecMutex == Init /\ [][NextMutex]_vars

-----------------------------------------------------------------------------
(* The hook dispatcher: postToHookWithRetry.                               *)

backoffFactor == 2
DefaultMaxRetries == 10
DefaultInitialDelayMs == 100
DefaultMaxDelayMs == 30000

\* a key of the hook_retry section of the configuration file: absent, or
\* present with a value
Unset == [set |-> FALSE, v |-> 0]
Set(n) == [set |-> TRUE, v |-> n]

\* what the YAML decoder leaves in the int field of HookRetryConfig
yamlInt(k) == IF k.set THEN k.v ELSE 0

HookRetryYaml ==
    [max_retries      : {Unset} \cup {Set(n) : n \in 0..MaxRetriesCfg},
     initial_delay_ms : {Unset} \cup {Set(n) : n \in 1..MaxDelayCfg},
     max_delay_ms     : {Unset} \cup {Set(n) : n \in 1..MaxDelayCfg}]

HookRetryConfig(yaml) ==
    [MaxRetries     |-> yamlInt(yaml.max_retries),
     InitialDelayMs |-> yamlInt(yaml.initial_delay_ms),
     MaxDelayMs     |-> yamlInt(yaml.max_delay_ms)]

maxRetriesOf(cfg) == IF cfg.MaxRetries = 0 THEN DefaultMaxRetries ELSE cfg.MaxRetries

initialDelayMsOf(cfg) ==
    IF cfg.InitialDelayMs = 0 THEN DefaultInitialDelayMs ELSE cfg.InitialDelayMs

maxDelayMsOf(cfg) == IF cfg.MaxDelayMs = 0 THEN DefaultMaxDelayMs ELSE cfg.MaxDelayMs

\* the delay of the next retry: doubled, with a cap
backoff(delay, maxDelay) ==
    IF delay * backoffFactor > maxDelay THEN maxDelay ELSE delay * backoffFactor

\* what http.Post returns: a transport-level error, or a response with a
\* status code
TransportError == 0
Outcomes == {TransportError, 200, 500}

\* postToHookWithRetry is called: the configuration is read
PostBegin(yaml) ==
    /\ post.pc = "idle"
    /\ LET cfg == HookRetryConfig(yaml) IN
       post' = [pc |-> "loop", yaml |-> yaml,
                maxRetries |-> maxRetriesOf(cfg),
                initialDelay |-> initialDelayMsOf(cfg),
                maxDelay |-> maxDelayMsOf(cfg),
                attempt |-> 0, delay |-> initialDelayMsOf(cfg),
                slept |-> <<>>, outcomes |-> <<>>]
    /\ UNCHANGED <<resolverVars, replay, searches, specs, searchResults, chans, closed,
                   tasks, calls, issued, emitted, crashed, mutex>>

\* the head of the loop: the loop ends after maxRetries + 1 attempts; before
\* a retry the delay is slept (jitter aside) and then doubled
PostLoop ==
    /\ post.pc = "loop"
    /\ post' = IF post.attempt > post.maxRetries
               THEN [post EXCEPT !.pc = "failed"]
               ELSE IF post.attempt > 0
                    THEN [post EXCEPT !.pc = "post",
                                      !.slept = Append(@, post.delay),
                                      !.delay = backoff(post.delay, post.maxDelay)]
                    ELSE [post EXCEPT !.pc = "post"]
    /\ UNCHANGED <<resolverVars, replay, searches, specs, searchResults, chans, closed,
                   tasks, calls, issued, emitted, crashed, mutex>>

\* http.Post: a response of any status is returned to sendHooks, which
\* decodes its body; a transport-level error goes round the loop
PostAttempt(outcome) ==
    /\ post.pc = "post"
    /\ post' = IF outcome = TransportError
               THEN [post EXCEPT !.pc = "loop", !.attempt = @ + 1,
                                 !.outcomes = Append(@, outcome)]
               ELSE [post EXCEPT !.pc = "decoded", !.outcomes = Append(@, outcome)]
    /\ UNCHANGED <<resolverVars, replay, searches, specs, searchResults, chans, closed,
                   tasks, calls, issued, emitted, crashed, mutex>>

NextPost ==
    \/ \E yaml \in HookRetryYaml : PostBegin(yaml)
    \/ PostLoop
    \/ \E outcome \in Outcomes : PostAttempt(outcome)

SpecPost == Init /\ [][NextPost]_vars

-----------------------------------------------------------------------------
(* The search registry, the scheduler tasks and the change detector.       *)

SearchId == "s"

\* what a scan of the source directory returns: entries with their
\* attributes (name -> values)
SourceEntry(dn, attrs) == [DN |-> dn, Attributes |-> attrs]

SrcOne == SourceEntry(<<"x">>, [k \in {"cn"} |-> <<ValX>>])
SrcTwo == SourceEntry(<<"x">>, [k \in {"cn"} |-> <<ValX, ValY>>])
SrcOther == SourceEntry(<<"y">>, [k \in {"cn"} |-> <<ValY>>])

Scans == {<<SrcOne>>, <<SrcTwo>>}

\* processLDAPEntry: an attribute with exactly one value maps to the scalar
attrMap(entry) ==
    [a \in DOMAIN entry.Attributes |->
        IF Len(entry.Attributes[a]) = 1 THEN Scalar(entry.Attributes[a][1])
        ELSE List(entry.Attributes[a])]

LDAPResult(entry) == [DN |-> entry.DN, Content |-> attrMap(entry)]

\* mutant: every observed entry counts as changed
differsAlways(existing, content) == TRUE

\* !reflect.DeepEqual(existing.Content, attrMap)
differs(existing, content) == existing.Content # content

\* mutant: a oneshot search emits as well
shouldSendAlways(oneshot) == TRUE

shouldSend(oneshot) == ~oneshot

\* processLDAPEntry: the cache after the entry and whether it is emitted
processLDAPEntry(cache, id, entry, oneshot) ==
    IF id \notin DOMAIN cache THEN [cache |-> cache, send |-> FALSE]
    ELSE IF entry.DN \notin DOMAIN cache[id]
         THEN [cache |-> [cache EXCEPT ![id] = Put(@, entry.DN, LDAPResult(entry))],
               send  |-> shouldSend(oneshot)]
         ELSE IF differs(cache[id][entry.DN], attrMap(entry))
              THEN [cache |-> [cache EXCEPT ![id] = Put(@, entry.DN, LDAPResult(entry))],
                    send  |-> shouldSend(oneshot)]
              ELSE [cache |-> cache, send |-> FALSE]

SearchSpec(refresh, oneshot, stop) ==
    [Refresh |-> refresh, Oneshot |-> oneshot, Stop |-> stop]

\* the goroutine started by "go ldapSearchAndSync(id, ..., oneshot, stopChan)"
\* since is a history field: "reset" once a reset was processed, "scan"
\* during the first scan the task began after it
Task(id, oneshot) ==
    [id |-> id, oneshot |-> oneshot, pc |-> "check", todo |-> <<>>,
     attempts |-> 0, scans |-> 0, since |-> "none"]

\* mutant: the closed Stop channel goes unnoticed
cancelledNever(c, cl) == FALSE

\* "case <-stopChan" is ready
cancelled(c, cl) == c \in cl

Calling(t, pc) ==
    /\ ~crashed
    /\ calls[t].op # "none"
    /\ calls[t].pc = pc

Free(t) ==
    /\ ~crashed
    /\ calls[t].op = "none"
    /\ issued < MaxCalls

Finish(t) == calls' = [calls EXCEPT ![t] = NoCall]

\* the form of a POST /search or PUT /search/:id request; for a PUT the id
\* is the path parameter
Form(id, filter, refresh, oneShot) ==
    [id |-> id, filter |-> filter, refresh |-> refresh, oneShot |-> oneShot]

FilterF == <<"f">>

\* the forms tried: the well-formed ones, and one for each way of being
\* ill-formed
Forms ==
    {Form(SearchId, FilterF, r, o) : r \in {"0", "1"}, o \in {"", "true", "false"}}
    \cup {Form("", FilterF, "1", "false"),
          Form(SearchId, <<>>, "1", "false"),
          Form(SearchId, <<" ">>, "1", "false"),
          Form(SearchId, FilterF, "", "false"),
          Form(SearchId, FilterF, "x", "false"),
          Form(SearchId, FilterF, "1", "x")}

\* strconv.Atoi on the refresh values of Forms
Atoi(str) ==
    CASE str = "0" -> [ok |-> TRUE, n |-> 0]
      [] str = "1" -> [ok |-> TRUE, n |-> 1]
      [] OTHER     -> [ok |-> FALSE, n |-> 0]

\* strconv.ParseBool on the oneShot values of Forms
ParseBool(str) ==
    CASE str = "true"  -> [ok |-> TRUE, b |-> TRUE]
      [] str = "false" -> [ok |-> TRUE, b |-> FALSE]
      [] OTHER         -> [ok |-> FALSE, b |-> FALSE]

\* the oneShot parameter: true if not provided
oneShotOf(form) == IF form.oneShot = "" THEN TRUE ELSE ParseBool(form.oneShot).b

\* mutant: the fields are not validated
invalidFormNever(form) == FALSE

\* the 400 answers that do not depend on the registry
invalidForm(form) ==
    \/ form.id = ""
    \/ TrimSpace(form.filter) = <<>>
    \/ form.refresh = ""
    \/ ~Atoi(form.refresh).ok
    \/ form.oneShot # "" /\ ~ParseBool(form.oneShot).ok

\* createSearchHandler up to the parsing of the form: every 400 answer is
\* given here
CreateRequest(t, form) ==
    /\ Free(t)
    /\ issued' = issued + 1
    /\ calls' = [calls EXCEPT ![t] =
                    IF invalidForm(form) \/ form.id \in DOMAIN searches THEN NoCall
                    ELSE [op |-> "createSearchHandler", pc |-> "install",
                          hook |-> FALSE, oneshot |-> oneShotOf(form),
                          refresh |-> Atoi(form.refresh).n]]
    /\ UNCHANGED <<searches, specs, searchResults, chans, closed, tasks, emitted,
                   crashed, resolverVars, replay, post, mutex>>

\* updateSearchHandler up to the parsing of the form
UpdateRequest(t, form) ==
    /\ Free(t)
    /\ issued' = issued + 1
    /\ calls' = [calls EXCEPT ![t] =
                    IF invalidForm(form) \/ form.id \notin DOMAIN searches THEN NoCall
                    ELSE [op |-> "updateSearchHandler", pc |-> "close",
                          hook |-> FALSE, oneshot |-> oneShotOf(form),
                          refresh |-> Atoi(form.refresh).n,
                          spec |-> searches[form.id]]]
    /\ UNCHANGED <<searches, specs, searchResults, chans, closed, tasks, emitted,
                   crashed, resolverVars, replay, post, mutex>>

\* deleteSearchHandler up to the check of the registry under the read lock
DeleteRequest(t, id) ==
    /\ Free(t)
    /\ issued' = issued + 1
    /\ calls' = [calls EXCEPT ![t] =
                    IF id \notin DOMAIN searches THEN NoCall
                    ELSE [op |-> "deleteSearchHandler", pc |-> "close",
                          hook |-> FALSE, spec |-> searches[id]]]
    /\ UNCHANGED <<searches, specs, searchResults, chans, closed, tasks, emitted,
                   crashed, resolverVars, replay, post, mutex>>

\* an item of the derived list of a hook response
DerivedSearchSpec(refresh, oneshot) ==
    [ID |-> SearchId, Refresh |-> refresh, Oneshot |-> oneshot]

\* processHookResponse, a derived search: the check of the registry under
\* the read lock decides between replacing and creating
DerivedCall(t, ds) ==
    /\ Free(t)
    /\ issued' = issued + 1
    /\ calls' = [calls EXCEPT ![t] =
                    IF ds.ID \in DOMAIN searches
                    THEN [op |-> "processHookResponse", pc |-> "close",
                          hook |-> TRUE, oneshot |-> ds.Oneshot,
                          refresh |-> ds.Refresh, spec |-> searches[ds.ID]]
                    ELSE [op |-> "processHookResponse", pc |-> "install",
                          hook |-> TRUE, oneshot |-> ds.Oneshot,
                          refresh |-> ds.Refresh]]
    /\ UNCHANGED <<searches, specs, searchResults, chans, closed, tasks, emitted,
                   crashed, replay, post, mutex>>

\* a derived search of a response whose other parts are left out
Derived(t, ds) == DerivedCall(t, ds) /\ UNCHANGED resolverVars

\* the requests that differ in nothing but the oneshot flag: a well-formed
\* form with a refresh of one second
WellFormed(oneshot) ==
    Form(SearchId, FilterF, "1", IF oneshot THEN "true" ELSE "false")

CreateCheck(t, oneshot) == CreateRequest(t, WellFormed(oneshot))

UpdateCheck(t, oneshot) == UpdateRequest(t, WellFormed(oneshot))

DeleteCheck(t) == DeleteRequest(t, SearchId)

DerivedCheck(t, oneshot) == Derived(t, DerivedSearchSpec(1, oneshot))

\* a new Stop channel and a new SearchSpec are put in the registry under
\* the write lock
Install(t) ==
    /\ Calling(t, "install")
    /\ LET ptr == Cardinality(DOMAIN specs) + 1 IN
       /\ chans' = chans + 1
       /\ specs' = Put(specs, ptr,
                       SearchSpec(calls[t].refresh, calls[t].oneshot, chans + 1))
       /\ searches' = Put(searches, SearchId, ptr)
       /\ calls' = [calls EXCEPT ![t] =
                       [op |-> @.op, pc |-> "cache", hook |-> @.hook,
                        oneshot |-> @.oneshot, refresh |-> @.refresh,
                        stop |-> chans + 1]]
    /\ UNCHANGED <<searchResults, closed, tasks, issued, emitted, crashed,
                   resolverVars, replay, post, mutex>>

\* the result cache of the id is set to an empty map and the task is
\* started: "go ldapSearchAndSync(...)"; the call returns
StartNew(t) ==
    /\ Calling(t, "cache")
    /\ searchResults' = Put(searchResults, SearchId, EmptyMap)
    /\ tasks' = Put(tasks, calls[t].stop, Task(SearchId, calls[t].oneshot))
    /\ Finish(t)
    /\ UNCHANGED <<searches, specs, chans, closed, issued, emitted, crashed,
                   resolverVars, replay, post, mutex>>

\* close(spec.Stop); closing a closed channel panics: the REST layer
\* recovers and drops the request, a hook goroutine takes the process down
CloseStop(t) ==
    /\ Calling(t, "close")
    /\ LET c == specs[calls[t].spec].Stop IN
       IF c \in closed
       THEN /\ crashed' = calls[t].hook
            /\ Finish(t)
            /\ UNCHANGED closed
       ELSE /\ closed' = closed \cup {c}
            /\ calls' = [calls EXCEPT ![t].pc =
                            IF calls[t].op = "deleteSearchHandler" THEN "unregister"
                            ELSE "assign"]
            /\ UNCHANGED crashed
    /\ UNCHANGED <<searches, specs, searchResults, chans, tasks, issued, emitted,
                   resolverVars, replay, post, mutex>>

\* mutant: a replaced search starts with empty caches
afterRestartEmpty(results) == [id \in DOMAIN results |-> EmptyMap]

\* a replace does not touch the result caches
afterRestart(results) == results

\* the spec is updated in place with a new Stop channel and the task is
\* started on it; the result cache is kept
Restart(t) ==
    /\ Calling(t, "assign")
    /\ chans' = chans + 1
    /\ specs' = [specs EXCEPT ![calls[t].spec] =
                    SearchSpec(calls[t].refresh, calls[t].oneshot, chans + 1)]
    /\ tasks' = Put(tasks, chans + 1, Task(SearchId, calls[t].oneshot))
    /\ searchResults' = afterRestart(searchResults)
    /\ Finish(t)
    /\ UNCHANGED <<searches, closed, issued, emitted, crashed,
                   resolverVars, replay, post, mutex>>

\* deleteSearchHandler: the id leaves the registry
Unregister(t) ==
    /\ Calling(t, "unregister")
    /\ searches' = Remove(searches, SearchId)
    /\ calls' = [calls EXCEPT ![t].pc = "drop"]
    /\ UNCHANGED <<specs, searchResults, chans, closed, tasks, issued, emitted,
                   crashed, resolverVars, replay, post, mutex>>

\* deleteSearchHandler: the result cache of the id is dropped
DropCache(t) ==
    /\ Calling(t, "drop")
    /\ searchResults' = Remove(searchResults, SearchId)
    /\ Finish(t)
    /\ UNCHANGED <<searches, specs, chans, closed, tasks, issued, emitted, crashed,
                   resolverVars, replay, post, mutex>>

\* mutant: the caches are left as they are
clearedNone(results) == results

\* every id keeps its cache, a new empty map
cleared(results) == [id \in DOMAIN results |-> EmptyMap]

\* the history field of the tasks that are not over
marked(ts) ==
    [c \in DOMAIN ts |-> IF ts[c].pc = "done" THEN ts[c]
                         ELSE [ts[c] EXCEPT !.since = "reset"]]

\* processHookResponse, reset: every result cache is emptied
Reset(t) ==
    /\ Free(t)
    /\ issued' = issued + 1
    /\ searchResults' = cleared(searchResults)
    /\ tasks' = marked(tasks)
    /\ UNCHANGED <<searches, specs, chans, closed, calls, emitted, crashed,
                   resolverVars, replay, post, mutex>>

\* the results the task has sent to the hooks so far
Sent(c) == IF c \in DOMAIN emitted THEN emitted[c] ELSE <<>>

At(c, pc) ==
    /\ ~crashed
    /\ c \in DOMAIN tasks
    /\ tasks[c].pc = pc

Step(c, task) ==
    /\ tasks' = [tasks EXCEPT ![c] = task]
    /\ UNCHANGED <<searches, specs, chans, closed, calls, issued, crashed,
                   resolverVars, replay, post, mutex>>

RECURSIVE attemptsOf(_, _)
attemptsOf(ts, cs) ==
    IF cs = {} THEN 0
    ELSE LET c == CHOOSE x \in cs : TRUE IN ts[c].attempts + attemptsOf(ts, cs \ {c})

\* the iterations of the loop all tasks have begun so far
Attempts == attemptsOf(tasks, DOMAIN tasks)

\* ldapSearchAndSync, the top of the loop: a closed Stop channel ends the
\* task; otherwise connectAndBindLDAP or performLDAPSearch fails
TaskFails(c) ==
    /\ At(c, "check")
    /\ IF cancelled(c, closed)
       THEN Step(c, [tasks[c] EXCEPT !.pc = "done"])
       ELSE /\ Attempts < MaxAttempts
            /\ Step(c, [tasks[c] EXCEPT !.pc = "retry", !.attempts = @ + 1])
    /\ UNCHANGED <<searchResults, emitted>>

\* ldapSearchAndSync, the top of the loop: the Stop channel is open and
\* performLDAPSearch returns the entries
TaskSearches(c, entries) ==
    /\ At(c, "check")
    /\ ~cancelled(c, closed)
    /\ Attempts < MaxAttempts
    /\ Step(c, [tasks[c] EXCEPT !.pc = "entries", !.todo = entries, !.attempts = @ + 1,
                                !.since = IF @ = "reset" THEN "scan" ELSE "none"])
    /\ UNCHANGED <<searchResults, emitted>>

\* processLDAPEntry on the next entry of the scan
TaskEntry(c) ==
    /\ At(c, "entries")
    /\ tasks[c].todo # <<>>
    /\ LET entry == Head(tasks[c].todo)
           r == processLDAPEntry(searchResults, tasks[c].id, entry, tasks[c].oneshot)
       IN /\ searchResults' = r.cache
          /\ emitted' = IF r.send
                        THEN Put(emitted, c, Append(Sent(c), LDAPResult(entry)))
                        ELSE emitted
    /\ Step(c, [tasks[c] EXCEPT !.todo = Tail(@)])

\* the scan is over: a oneshot task returns, any other goes to sleep
TaskScanned(c) ==
    /\ At(c, "entries")
    /\ tasks[c].todo = <<>>
    /\ Step(c, [tasks[c] EXCEPT !.scans = @ + 1,
                                !.pc = IF tasks[c].oneshot THEN "done" ELSE "sleep"])
    /\ UNCHANGED <<searchResults, emitted>>

\* the select after a scan or after a failure: the refresh interval is over
TaskWakes(c) ==
    /\ At(c, "sleep") \/ At(c, "retry")
    /\ Step(c, [tasks[c] EXCEPT !.pc = "check"])
    /\ UNCHANGED <<searchResults, emitted>>

\* the select after a scan or after a failure: the Stop channel is closed
TaskStops(c) ==
    /\ At(c, "sleep") \/ At(c, "retry")
    /\ cancelled(c, closed)
    /\ Step(c, [tasks[c] EXCEPT !.pc = "done"])
    /\ UNCHANGED <<searchResults, emitted>>

CallerNext(t) ==
    \/ \E oneshot \in BOOLEAN : CreateCheck(t, oneshot)
    \/ \E oneshot \in BOOLEAN : UpdateCheck(t, oneshot)
    \/ DeleteCheck(t)
    \/ \E oneshot \in BOOLEAN : DerivedCheck(t, oneshot)
    \/ Reset(t)
    \/ Install(t)
    \/ StartNew(t)
    \/ CloseStop(t)
    \/ Restart(t)
    \/ Unregister(t)
    \/ DropCache(t)

TaskNext(c) ==
    \/ TaskFails(c)
    \/ \E entries \in Scans : TaskSearches(c, entries)
    \/ TaskEntry(c)
    \/ TaskScanned(c)
    \/ TaskWakes(c)
    \/ TaskStops(c)

Channels == 1..(2 * MaxCalls)

\* the registry under concurrent callers
NextSearch ==
    \/ \E t \in Callers : CallerNext(t)
    \/ \E c \in Channels : TaskNext(c)

SpecSearch == Init /\ [][NextSearch]_vars

\* the registry with one caller: each call returns before the next is made
NextSearchSeq ==
    \/ CallerNext(1)
    \/ \E c \in Channels : TaskNext(c)

SpecSearchSeq == Init /\ [][NextSearchSeq]_vars

\* main restores a saved search: the spec loaded from the database is put
\* in the registry with its Stop channel, its result cache is an empty map
\* and its task is started
Restored(oneshot) ==
    /\ searches = [id \in {SearchId} |-> 1]
    /\ specs = [ptr \in {1} |-> SearchSpec(1, oneshot, 1)]
    /\ searchResults = [id \in {SearchId} |-> EmptyMap]
    /\ chans = 1
    /\ closed = {}
    /\ tasks = [c \in {1} |-> Task(SearchId, oneshot)]

InitRestored ==
    /\ stack = [t \in Threads |-> <<>>]
    /\ started = 0
    /\ bindings = EmptyMap
    /\ nullBindings = {}
    /\ synced = {}
    /\ pending = EmptyMap
    /\ reverse = EmptyMap
    /\ dnLocks = {}
    /\ written = {}
    /\ failures = 0
    /\ target = EmptyMap
    /\ replay = NoReplay
    /\ \E oneshot \in BOOLEAN : Restored(oneshot)
    /\ calls = [t \in Callers |-> NoCall]
    /\ issued = 0
    /\ emitted = EmptyMap
    /\ crashed = FALSE
    /\ post = NoPost
    /\ mutex = [holder |-> 0, walk |-> [t \in Threads |-> <<>>]]

\* the registry under concurrent callers, a saved search having been
\* restored at start
SpecRestored == InitRestored /\ [][NextSearch]_vars

\* the registry under requests of every form, one at a time
RestNext(t) ==
    \/ \E form \in Forms : CreateRequest(t, form)
    \/ \E form \in Forms : UpdateRequest(t, form)
    \/ \E id \in {"", SearchId} : DeleteRequest(t, id)
    \/ \E refresh \in {0, 1}, oneshot \in BOOLEAN :
          Derived(t, DerivedSearchSpec(refresh, oneshot))
    \/ Install(t)
    \/ StartNew(t)
    \/ CloseStop(t)
    \/ Restart(t)
    \/ Unregister(t)
    \/ DropCache(t)

NextRest ==
    \/ RestNext(1)
    \/ \E c \in Channels : TaskNext(c)

SpecRest == Init /\ [][NextRest]_vars

-----------------------------------------------------------------------------
(* From the source to the target: a polling search is created, its task    *)
(* scans, sendHooks starts one goroutine per configured hook for each      *)
(* result the task emits, and each goroutine processes the response of its *)
(* hook.  The source holds one entry, which does not change.               *)

\* the results emitted so far, over all tasks
RECURSIVE emissionsOf(_, _)
emissionsOf(em, cs) ==
    IF cs = {} THEN 0
    ELSE LET c == CHOOSE x \in cs : TRUE IN Len(em[c]) + emissionsOf(em, cs \ {c})

Emissions == emissionsOf(emitted, DOMAIN emitted)

PipelineResponses == {BindValue, UserEntry, GroupEntry}

\* a goroutine of sendHooks has the response of its hook
SendHooks(t, resp) ==
    /\ started < HooksConfigured * Emissions
    /\ ProcessHookResponse(t, resp)

NextPipeline ==
    \/ CreateCheck(1, FALSE)
    \/ Install(1)
    \/ StartNew(1)
    \/ Reset(1)
    \/ \E c \in Channels :
          \/ TaskSearches(c, <<SrcOne>>)
          \/ TaskEntry(c)
          \/ TaskScanned(c)
          \/ TaskWakes(c)
    \/ \E t \in Threads :
          \/ \E resp \in PipelineResponses : SendHooks(t, resp)
          \/ UpdateBindings(t)
          \/ ReprocessDrain(t)
          \/ ReprocessNext(t)
          \/ HandleEntryAbsorb(t)
          \/ HandleEntryResolve(t)
          \/ HandleEntryDecide(t)
          \/ StoreBegin(t)
          \/ StoreSucceeds(t)
          \/ StoreFails(t)
          \/ MarkSyncedLock(t)
          \/ MarkSyncedSnapshot(t)
          \/ MarkSyncedNext(t)

SpecPipeline == Init /\ [][NextPipeline]_vars

-----------------------------------------------------------------------------
(* processHookResponse with all its parts: the bindings and the            *)
(* transformed entries go to the resolver, the derived searches to the     *)
(* registry, the reset to the caches.  Hook goroutine t makes its registry *)
(* calls as caller t.                                                      *)

\* an entry that waits for the DN the binding u names
HookWaiting == WaitingEntry

\* every part at once: a binding, two entries with one dependency list, a
\* derived search and the reset
HookFull ==
    FullResponse([k \in {NameU} |-> Value(<<"b">>)],
                 <<Entry(<<"b">>, EmptyMap), Entry(<<"c">>, EmptyMap)>>,
                 <<<<"$", "u">>>>,
                 <<DerivedSearchSpec(1, FALSE)>>,
                 TRUE)

\* derived searches only: the second replaces what the first created
HookDerivedOnly ==
    FullResponse(EmptyMap, <<>>, <<>>,
                 <<DerivedSearchSpec(1, FALSE), DerivedSearchSpec(1, TRUE)>>,
                 FALSE)

HookResponses == {HookWaiting, HookFull, HookDerivedOnly}

\* processHookResponse is between two parts, no call in progress
Between(t, part) ==
    /\ ~crashed
    /\ stack[t] # <<>>
    /\ Top(stack[t]).op = "processHookResponse"
    /\ calls[t] = NoCall
    /\ nextPart(Top(stack[t])) = part

\* the loop over hookResp.Derived takes its next item
HookDerived(t) ==
    /\ Between(t, "derived")
    /\ LET f == Top(stack[t]) IN
       /\ DerivedCall(t, f.resp.Derived[f.nextDerived])
       /\ stack' = [stack EXCEPT ![t] = SetTop(@, [f EXCEPT !.nextDerived = @ + 1])]
    /\ UNCHANGED <<started, bindings, nullBindings, synced, pending, reverse,
                   dnLocks, written, failures, target>>

\* the reset directive: every result cache is emptied, and the call returns
HookReset(t) ==
    /\ Between(t, "reset")
    /\ searchResults' = cleared(searchResults)
    /\ tasks' = marked(tasks)
    /\ stack' = [stack EXCEPT ![t] = Return(@)]
    /\ UNCHANGED <<started, bindings, nullBindings, synced, pending, reverse,
                   dnLocks, written, failures, target, replay,
                   searches, specs, chans, closed, calls, issued, emitted, crashed,
                   post, mutex>>

\* the last derived search is done and nothing is left
HookReturn(t) ==
    /\ Between(t, "return")
    /\ stack' = [stack EXCEPT ![t] = Resume(@)]
    /\ UNCHANGED <<started, bindings, nullBindings, synced, pending, reverse,
                   dnLocks, written, failures, target, replay, searchVars>>

NextHook ==
    \E t \in Threads :
        \/ \E resp \in HookResponses : ProcessHookResponse(t, resp)
        \/ UpdateBindings(t)
        \/ ReprocessDrain(t)
        \/ ReprocessNext(t)
        \/ HandleEntryAbsorb(t)
        \/ HandleEntryResolve(t)
        \/ HandleEntryDecide(t)
        \/ StoreBegin(t)
        \/ StoreSucceeds(t)
        \/ StoreFails(t)
        \/ MarkSyncedLock(t)
        \/ MarkSyncedSnapshot(t)
        \/ MarkSyncedNext(t)
        \/ HookDerived(t)
        \/ Install(t)
        \/ StartNew(t)
        \/ CloseStop(t)
        \/ Restart(t)
        \/ HookReset(t)
        \/ HookReturn(t)

SpecHook == Init /\ [][NextHook]_vars

-----------------------------------------------------------------------------
(* Vocabulary of the properties.                                           *)

Idle == \A t \in Threads : stack[t] = <<>>

ContentStrings(entry) ==
    UNION {IF entry.Content[k].list THEN Range(entry.Content[k].v)
           ELSE {entry.Content[k].v} : k \in DOMAIN entry.Content}

\* every binding name that the DN, a content string or a dependency string of
\* the entry refers to
NamesOf(entry, rawDeps) ==
    UNION {Placeholders(x) : x \in {entry.DN} \cup ContentStrings(entry) \cup Range(rawDeps)}

Known(b, nb) == DOMAIN b \cup nb

\* the frames of thread t that hold an entry on its way to the target: the
\* write is about to begin or in progress
InFlight(t) ==
    {i \in DOMAIN stack[t] :
        /\ stack[t][i].op \in {"handleEntry", "markSyncedAndRelease"}
        /\ stack[t][i].pc \in {"store", "storing"}}

\* the frames of thread t whose entry has been written and whose DN the
\* call of markSyncedAndRelease above them has put in synced
Done(t) ==
    {i \in DOMAIN stack[t] :
        /\ stack[t][i].op \in {"handleEntry", "markSyncedAndRelease"}
        /\ stack[t][i].pc = "mark"
        /\ i < Len(stack[t])
        /\ stack[t][i + 1].pc # "lock"}

-----------------------------------------------------------------------------
(* C1.  Dependency ordering: when the write of an entry begins, every DN   *)
(* of its resolved dependency set (the set the resolver computed for it,   *)
(* normalized, without the entry's own key) has a completed successful     *)
(* target write.                                                           *)

-----------------------------------------------------------------------------
(* C2.  Binding gate: no entry is on its way to the target while a         *)
(* placeholder of its DN, of a content string or of one of its dependency  *)
(* strings names a binding that is neither bound nor marked null.          *)

BindingGate ==
    \A t \in Threads : \A i \in InFlight(t) :
        NamesOf(stack[t][i].entry, stack[t][i].rawDeps)
            \subseteq Known(bindings, nullBindings)

-----------------------------------------------------------------------------
(* C3.  Sequential release, one goroutine, no failed write: an entry that  *)
(* has been written and whose DN is in synced has all its placeholders     *)
(* (entry and dependency strings) bound or null; and once the calls have   *)
(* returned no entry is left pending whose placeholders are all bound or   *)
(* null (none of them null in the DN) and whose resolved dependencies are  *)
(* all synced.                                                             *)

\* the resolved dependency set of a pending entry under the current bindings
CurrentDepSet(p) ==
    depSetOf(resolveDependencies(p.rawDeps, bindings, nullBindings).deps,
             normalizeDN(p.entry.DN))

Resolves(p) ==
    /\ NamesOf(p.entry, p.rawDeps) \subseteq Known(bindings, nullBindings)
    /\ Placeholders(p.entry.DN) \cap nullBindings = {}

SequentialRelease ==
    /\ \A i \in Done(1) :
          normalizeDN(stack[1][i].resolvedEntry.DN) \in synced =>
              NamesOf(stack[1][i].entry, stack[1][i].rawDeps)
                  \subseteq Known(bindings, nullBindings)
    /\ (Idle /\ failures = 0) =>
          \A k \in DOMAIN pending :
              ~(Resolves(pending[k]) /\ CurrentDepSet(pending[k]) \subseteq synced)

-----------------------------------------------------------------------------
(* C4.  No lost wake-up: once every goroutine has returned (no failed      *)
(* write), no entry is left pending that has all its placeholders bound or *)
(* null and all its dependencies synced, and that handleEntry would write  *)
(* if it were handed the entry again.                                      *)

WouldStore(p) ==
    LET re == resolveEntryTemplates(p.entry, bindings, nullBindings)
        rd == resolveDependencies(p.rawDeps, bindings, nullBindings)
    IN storeNow(missingOf(depSetOf(rd.deps, normalizeDN(p.entry.DN)), synced),
                re.missing, rd.missing)

NoLostWakeup ==
    (Idle /\ failures = 0) =>
        \A k \in DOMAIN pending :
            ~(/\ NamesOf(pending[k].entry, pending[k].rawDeps)
                    \subseteq Known(bindings, nullBindings)
              /\ CurrentDepSet(pending[k]) \subseteq synced
              /\ WouldStore(pending[k]))

-----------------------------------------------------------------------------
(* C5.  Template binding scenario, one goroutine, no failed write: once    *)
(* pidUidMap.42 (here p) is bound and the calls have returned, the entry   *)
(* with the templated DN and that same template as its dependency is no    *)
(* longer pending.                                                         *)

TemplateScenario ==
    (Idle /\ failures = 0 /\ NameP \in DOMAIN bindings) =>
        \A k \in DOMAIN pending :
            ~(pending[k].entry.DN = TemplateDN /\ pending[k].rawDeps = <<TemplateDN>>)

-----------------------------------------------------------------------------
(* C6.  Null bindings.  As amended: a placeholder naming a null-marked     *)
(* binding counts as resolved in a content string and in a dependency      *)
(* string (a dependency string that names a null-marked binding is dropped  *)
(* from the list), not in the DN: when handleEntry decides, an entry all   *)
(* of whose placeholders are bound or null in the snapshot, none of them   *)
(* null in the DN, and whose remaining dependencies are synced, empty or   *)
(* its own key, is written rather than deferred.                           *)

StoreDecided(t) ==
    /\ stack[t] # <<>>
    /\ Top(stack[t]).op = "handleEntry"
    /\ Top(stack[t]).pc = "store"

DepsSatisfied(f) ==
    \A d \in Range(f.rawDeps) :
        Placeholders(d) \cap f.snapN = {} =>
            normalizeDN(resolveString(d, f.snapB, f.snapN).out)
                \in synced \cup {<<>>, normalizeDN(f.entry.DN)}

AllKnown(f) == NamesOf(f.entry, f.rawDeps) \subseteq Known(f.snapB, f.snapN)

NullResolvesOutsideDN ==
    [][\A t \in Threads :
          (/\ HandleEntryDecide(t)
           /\ AllKnown(Top(stack[t]))
           /\ Placeholders(Top(stack[t]).entry.DN) \cap Top(stack[t]).snapN = {}
           /\ DepsSatisfied(Top(stack[t])))
          => StoreDecided(t)']_vars

\* the claim as stated: a null-marked placeholder counts as resolved in the
\* DN as well
NullResolvesEverywhere ==
    [][\A t \in Threads :
          (/\ HandleEntryDecide(t)
           /\ AllKnown(Top(stack[t]))
           /\ DepsSatisfied(Top(stack[t])))
          => StoreDecided(t)']_vars

\* an entry that names a null-marked binding in its content and in its
\* dependency, and nothing unknown, goes to the target
NullResolvesWitness ==
    \E t \in Threads :
        /\ StoreDecided(t)
        /\ AllKnown(Top(stack[t]))
        /\ \E x \in ContentStrings(Top(stack[t]).entry) :
              Placeholders(x) \cap Top(stack[t]).snapN # {}
        /\ \E d \in Range(Top(stack[t]).rawDeps) :
              Placeholders(d) \cap Top(stack[t]).snapN # {}

-----------------------------------------------------------------------------
(* C7.  Invariant I1: for every pending entry P and every dependency d in  *)
(* P's missing set, P's key is in reverse[d].                              *)

ReverseCoversPending ==
    \A k \in DOMAIN pending : \A d \in pending[k].deps :
        d \in DOMAIN reverse /\ k \in reverse[d]

ReverseCoversPendingWitness ==
    /\ \E k \in DOMAIN pending : Cardinality(pending[k].deps) > 0
    /\ \E t \in Threads : stack[t] # <<>>

-----------------------------------------------------------------------------
(* C8.  Invariant I2: every edge (d, p) of reverse has p pending and d in  *)
(* pending[p]'s missing set.                                               *)

ReverseOnlyPending ==
    \A d \in DOMAIN reverse : \A p \in reverse[d] :
        p \in DOMAIN pending /\ d \in pending[p].deps

-----------------------------------------------------------------------------
(* C9.  Invariant I3.  As stated: once every call has returned, no DN is   *)
(* both in synced and a key of pending (stated here for the runs with no   *)
(* null binding and no failed write).                                      *)

-----------------------------------------------------------------------------
(* C10.  Invariant I4: no name is both in bindings and in nullBindings.    *)

BindingsDisjoint == DOMAIN bindings \cap nullBindings = {}

\* two updates of the same name, one to a value and one to null, have both
\* been applied, by two goroutines
Applied(t, null) ==
    \E i \in DOMAIN stack[t] :
        /\ stack[t][i].op = "updateBindings"
        /\ stack[t][i].pc = "reprocess"
        /\ stack[t][i].newBindings[NameP].null = null

BindingsDisjointWitness ==
    \E t1, t2 \in Threads : t1 # t2 /\ Applied(t1, TRUE) /\ Applied(t2, FALSE)

-----------------------------------------------------------------------------
(* C15.  Per-DN serialization: two goroutines never have a target write in *)
(* progress for DNs with the same normalized form, and a DN lock is held   *)
(* exactly while a write of that DN is in progress (it is released when    *)
(* the write succeeds and when it fails).                                  *)

Writing(t) ==
    {i \in DOMAIN stack[t] :
        /\ stack[t][i].op \in {"handleEntry", "markSyncedAndRelease"}
        /\ stack[t][i].pc = "storing"}

PerDNSerialization ==
    /\ \A t1, t2 \in Threads : \A i \in Writing(t1) : \A j \in Writing(t2) :
          normalizeDN(stack[t1][i].resolvedEntry.DN)
              = normalizeDN(stack[t2][j].resolvedEntry.DN) => t1 = t2
    /\ dnLocks = UNION {{getDNLock(stack[t][i].resolvedEntry.DN) : i \in Writing(t)} :
                            t \in Threads}

\* a write of one spelling of the DN is in progress while the other
\* spelling waits for the lock, after a write has failed
PerDNSerializationWitness ==
    /\ failures > 0
    /\ \E t1, t2 \in Threads :
          /\ Writing(t1) # {}
          /\ Top(stack[t1]).resolvedEntry.DN = <<"A">>
          /\ stack[t2] # <<>>
          /\ Top(stack[t2]).op = "handleEntry"
          /\ Top(stack[t2]).pc = "store"
          /\ Top(stack[t2]).resolvedEntry.DN = <<"a", " ">>

-----------------------------------------------------------------------------
(* C16.  Merge of sequences: when the target entry exists, a supplied      *)
(* attribute whose value is a non-empty sequence is written as the target's *)
(* values followed by the supplied values not yet among them, and a scalar *)
(* outside the merge-attribute set is written as supplied.                 *)

Held(key, a) ==
    IF attrLower(a) \in DOMAIN target[key] THEN target[key][attrLower(a)] ELSE <<>>

Union(held, supplied) == Dedup(held \o supplied, {})

SequenceMerge ==
    [][\A t \in Threads :
          (StoreSucceeds(t) /\ normalizeDN(Top(stack[t]).resolvedEntry.DN) \in DOMAIN target)
          => LET e   == Top(stack[t]).resolvedEntry
                 key == normalizeDN(e.DN)
             IN \A a \in DOMAIN e.Content :
                   IF isSliceValue(e.Content[a])
                   THEN Len(e.Content[a].v) # 0 =>
                           target'[key][attrLower(a)] = Union(Held(key, a), e.Content[a].v)
                   ELSE ~isMergeAttr(a) =>
                           target'[key][attrLower(a)] = <<e.Content[a].v>>]_vars

-----------------------------------------------------------------------------
(* C17.  memberUid: when the target entry exists, a write that supplies    *)
(* memberUid (under any spelling of the name) leaves the target with its   *)
(* former values followed by the supplied values not yet among them.       *)

MemberUidMerge ==
    [][\A t \in Threads :
          (StoreSucceeds(t) /\ normalizeDN(Top(stack[t]).resolvedEntry.DN) \in DOMAIN target)
          => LET e   == Top(stack[t]).resolvedEntry
                 key == normalizeDN(e.DN)
             IN \A a \in DOMAIN e.Content :
                   isMergeAttr(a) =>
                      LET want == Union(Held(key, a), toStringSlice(e.Content[a]))
                          got  == IF "memberuid" \in DOMAIN target'[key]
                                  THEN target'[key]["memberuid"] ELSE <<>>
                      IN got = want]_vars

-----------------------------------------------------------------------------
(* C19.  Empty DN: a call of handleEntry with a DN that is empty after     *)
(* normalization returns at its first step and leaves synced, pending,     *)
(* reverse, the DN locks and the target as they were.                      *)

AtEntry(t) ==
    /\ Running(t, "handleEntry", "absorb")
    /\ normalizeDN(Top(stack[t]).entry.DN) = <<>>

EmptyDNRejected ==
    [][\A t \in Threads :
          (AtEntry(t) /\ stack'[t] # stack[t])
          => /\ UNCHANGED <<synced, pending, reverse, dnLocks, written, target>>
             /\ Len(stack'[t]) < Len(stack[t])]_vars

\* an entry whose DN is one space has been handed to handleEntry
EmptyDNRejectedWitness ==
    \E t \in Threads :
        /\ AtEntry(t)
        /\ Top(stack[t]).entry.DN = <<" ">>
        /\ target # EmptyMap

-----------------------------------------------------------------------------
(* C20.  Self-dependency: once handleEntry has resolved an entry, the      *)
(* dependency set it computed does not hold the entry's own resolved DN.   *)

Resolved(t) ==
    {i \in DOMAIN stack[t] :
        /\ stack[t][i].op = "handleEntry"
        /\ stack[t][i].pc \in {"decide", "store", "storing", "mark"}}

SelfDependencyStripped ==
    \A i \in Resolved(1) :
        ~stack[1][i].entryMissing =>
            normalizeDN(stack[1][i].resolvedEntry.DN) \notin stack[1][i].depSet

-----------------------------------------------------------------------------
(* C18.  Idempotence L1.  As stated: when the same hook response has been  *)
(* processed twice in a row (no failed write), synced, pending, reverse    *)
(* and the target directory are what the first processing left.            *)

Twice == replay.phase = 2 /\ started = replay.at /\ Idle /\ failures = 0

IdempotentTwice == Twice => ResolverState = replay.first

\* --- the search subsystem -------------------------------------------------

\* the task of channel c hands the next entry of its scan to processLDAPEntry
Processes(c) ==
    /\ c \in DOMAIN tasks
    /\ tasks[c].pc = "entries"
    /\ tasks[c].todo # <<>>
    /\ tasks'[c].todo = Tail(tasks[c].todo)

Observed(c) == Head(tasks[c].todo)

HasCache(c) == tasks[c].id \in DOMAIN searchResults

Cached(c) ==
    /\ HasCache(c)
    /\ Observed(c).DN \in DOMAIN searchResults[tasks[c].id]

Differs(c) ==
    /\ Cached(c)
    /\ searchResults[tasks[c].id][Observed(c).DN].Content # attrMap(Observed(c))

SentNext(c) == IF c \in DOMAIN emitted' THEN emitted'[c] ELSE <<>>

Emits(c) ==
    /\ SentNext(c) = Append(Sent(c), LDAPResult(Observed(c)))
    /\ \A d \in Channels \ {c} : SentNext(d) = Sent(d)

CacheHolds(c) ==
    /\ tasks[c].id \in DOMAIN searchResults'
    /\ Observed(c).DN \in DOMAIN searchResults'[tasks[c].id]
    /\ searchResults'[tasks[c].id][Observed(c).DN] = LDAPResult(Observed(c))

\* C11 as stated: every processed entry is emitted exactly when its DN has
\* no cached entry for the search or the cached content differs, and the
\* task is not oneshot; nothing else is emitted and afterwards the cache
\* holds the observed content.
ChangeDetectionAlways ==
    [][\A c \in Channels : Processes(c) =>
          /\ Emits(c) <=> ((~Cached(c) \/ Differs(c)) /\ ~tasks[c].oneshot)
          /\ Emits(c) \/ emitted' = emitted
          /\ CacheHolds(c)]_vars

\* C11 amended: the same, provided the search still has a result cache; an
\* entry processed after the cache of its search was dropped is neither
\* cached nor emitted.
ChangeDetection ==
    [][\A c \in Channels : Processes(c) =>
          IF HasCache(c)
          THEN /\ Emits(c) <=> ((~Cached(c) \/ Differs(c)) /\ ~tasks[c].oneshot)
               /\ Emits(c) \/ emitted' = emitted
               /\ CacheHolds(c)
          ELSE /\ emitted' = emitted
               /\ searchResults' = searchResults]_vars

\* a polling task has scanned twice and emitted once, and the cache holds
\* an entry: the second observation was compared with the first
ChangeDetectionWitness ==
    \E c \in DOMAIN tasks :
        /\ ~tasks[c].oneshot
        /\ tasks[c].scans = 2
        /\ Len(Sent(c)) = 1
        /\ tasks[c].id \in DOMAIN searchResults
        /\ searchResults[tasks[c].id] # EmptyMap

Quiescent == ~crashed /\ \A t \in Callers : calls[t] = NoCall

\* the task a registered id owns: the one started on the Stop channel of
\* its spec
Owner(id) == specs[searches[id]].Stop

Live(c) == tasks[c].pc # "done" /\ c \notin closed

\* C13: when no operation on the registry is in progress, every registered
\* id has its task (running, or over if oneshot) and its cache, and every
\* other task is cancelled or over.
OneTaskPerSearch ==
    Quiescent =>
        /\ \A id \in DOMAIN searches :
              /\ Owner(id) \in DOMAIN tasks
              /\ Owner(id) \notin closed
              /\ id \in DOMAIN searchResults
        /\ \A c \in DOMAIN tasks :
              Live(c) => /\ tasks[c].id \in DOMAIN searches
                            /\ Owner(tasks[c].id) = c

\* where the task is, without its history field
position(task) == [task EXCEPT !.since = "none"]

rank(task) ==
    IF task.pc = "done" THEN 0
    ELSE IF task.pc = "check" THEN 1
    ELSE IF task.pc \in {"sleep", "retry"} THEN 2
    ELSE 3 + Len(task.todo)

\* C14: once the Stop channel of a task is closed, every step of the task
\* brings it closer to its end (entries left, then the sleep, then the
\* check, then the end) and begins no attempt.
Cancellation ==
    [][\A c \in DOMAIN tasks : (c \in closed /\ position(tasks'[c]) # position(tasks[c])) =>
          /\ rank(tasks'[c]) < rank(tasks[c])
          /\ tasks'[c].attempts = tasks[c].attempts]_vars

\* a polling task is over: its Stop channel was closed while it slept or
\* scanned
CancellationWitness ==
    \E c \in DOMAIN tasks :
        /\ c \in closed
        /\ ~tasks[c].oneshot
        /\ tasks[c].scans >= 1
        /\ tasks[c].pc = "done"

\* --- the hook dispatcher --------------------------------------------------

Posting == post.pc # "idle"

\* C23: one call makes at most max_retries + 1 POST attempts, 11 when
\* max_retries is not configured; every attempt but the last met a transport
\* error, and a response of any status is the last attempt and is decoded.
RetryBound ==
    Posting =>
        /\ Len(post.outcomes) <= (IF post.yaml.max_retries.set
                                  THEN post.yaml.max_retries.v + 1
                                  ELSE DefaultMaxRetries + 1)
        /\ \A i \in 1..(Len(post.outcomes) - 1) : post.outcomes[i] = TransportError
        /\ \A i \in 1..Len(post.outcomes) :
              post.outcomes[i] # TransportError => post.pc = "decoded"

RECURSIVE pow2(_)
pow2(n) == IF n = 0 THEN 1 ELSE 2 * pow2(n - 1)

Min(a, b) == IF a < b THEN a ELSE b

\* C24: the delay slept before the k-th retry, jitter aside, is
\* min(initial_delay_ms * 2^(k-1), max_delay_ms), so none exceeds
\* max_delay_ms.
RetryDelay ==
    Posting =>
        \A k \in 1..Len(post.slept) :
            /\ post.slept[k] = Min(post.initialDelay * pow2(k - 1), post.maxDelay)
            /\ post.slept[k] <= post.maxDelay

\* --- sequences and null bindings ------------------------------------------

\* the handleEntry frames that hold a resolved entry
ResolvedFrames ==
    {f \in UNION {{stack[t][i] : i \in 1..Len(stack[t])} : t \in Threads} :
        f.op = "handleEntry" /\ f.pc \in {"decide", "store"}}

NamesNull(s, nb) == Placeholders(s) \cap nb # {}

\* the elements that name no null binding, in their order, each substituted
\* on its own
Surviving(items, b, nb) ==
    LET kept == SelectSeq(items, LAMBDA s : ~NamesNull(s, nb))
    IN [i \in 1..Len(kept) |-> resolveString(kept[i], b, nb).out]

\* C22: a resolved sequence holds, in their original order, the substituted
\* elements that name no null-marked binding, and no other element.
NullElementsDropped ==
    \A f \in ResolvedFrames :
        \A k \in DOMAIN f.entry.Content :
            f.entry.Content[k].list =>
                f.resolvedEntry.Content[k] =
                    List(Surviving(f.entry.Content[k].v, f.snapB, f.snapN))

\* a sequence of two elements was resolved to the second one: the first
\* names a null binding
NullElementsDroppedWitness ==
    \E f \in ResolvedFrames :
        \E k \in DOMAIN f.entry.Content :
            /\ f.entry.Content[k].list
            /\ Len(f.entry.Content[k].v) = 2
            /\ NamesNull(f.entry.Content[k].v[1], f.snapN)
            /\ f.resolvedEntry.Content[k] = List(<<f.entry.Content[k].v[2]>>)

\* --- a target write that fails --------------------------------------------

\* C26: the step in which a target write fails, in handleEntry or in the
\* release loop of markSyncedAndRelease, leaves synced, pending and reverse
\* as they are, and the goroutine goes on without a markSyncedAndRelease of
\* that DN, without a second write of the entry and without handing it to
\* handleEntry again.
WriteFailureDrops ==
    [][\A t \in Threads : StoreFails(t) =>
          LET f == Top(stack[t]) IN
          /\ synced' = synced
          /\ pending' = pending
          /\ reverse' = reverse
          /\ \A i \in 1..Len(stack'[t]) :
                LET g == stack'[t][i] IN
                /\ ~(g.op = "markSyncedAndRelease" /\ g.pc = "lock")
                /\ ~(g.op \in {"handleEntry", "markSyncedAndRelease"}
                       /\ g.pc \in {"store", "storing"})
                /\ ~(g.op = "handleEntry" /\ g.pc = "absorb"
                       /\ g.entry = f.resolvedEntry)]_vars

\* a write has failed, every goroutine is done, and an entry is still
\* pending on a DN that is not synced
WriteFailureDropsWitness ==
    /\ failures > 0
    /\ Idle
    /\ \E k \in DOMAIN pending :
          /\ pending[k].deps # {}
          /\ pending[k].deps \cap synced = {}
          /\ pending[k].deps \cap DOMAIN pending = {}

\* --- binding snapshots ----------------------------------------------------

\* what the updates of SnapshotResponses leave when each is applied whole:
\* p is bound exactly when u is null-marked, and u exactly when p is
Whole(b, nb) ==
    /\ NameP \in DOMAIN b <=> NameU \in nb
    /\ NameU \in DOMAIN b <=> NameP \in nb

\* C29: the snapshot of a handleEntry pass holds every update whole, and the
\* resolved DN and content, the dependency set and the two flags of the pass
\* all come from that snapshot.
SnapshotConsistent ==
    \A f \in ResolvedFrames :
        LET re == resolveEntryTemplates(f.entry, f.snapB, f.snapN)
            rd == resolveDependencies(f.rawDeps, f.snapB, f.snapN)
        IN /\ Whole(f.snapB, f.snapN)
           /\ f.resolvedEntry = re.entry
           /\ f.entryMissing = re.missing
           /\ f.depsMissing = rd.missing
           /\ f.depSet = depSetOf(rd.deps, normalizeDN(f.entry.DN))

\* a pass holds a snapshot taken after one update while the bindings have
\* been changed by another
SnapshotConsistentWitness ==
    \E f \in ResolvedFrames :
        /\ f.snapB # EmptyMap
        /\ f.snapB # bindings
        /\ f.snapN # nullBindings

\* --- REST validation ------------------------------------------------------

\* what the claim calls a rejected request
RejectedPost(form) ==
    \/ form.id = ""
    \/ form.filter \in {<<>>, <<" ">>}
    \/ form.refresh \in {"", "x"}
    \/ form.oneShot = "x"
    \/ form.id \in DOMAIN searches

RejectedPut(form) ==
    \/ form.id = ""
    \/ form.filter \in {<<>>, <<" ">>}
    \/ form.refresh \in {"", "x"}
    \/ form.oneShot = "x"
    \/ form.id \notin DOMAIN searches

RegistryUnchanged ==
    UNCHANGED <<searches, specs, searchResults, tasks, chans, closed, emitted>>

\* C25: a POST, PUT or DELETE that is rejected returns at once and leaves
\* the registry, the caches, the tasks and the Stop channels as they are.
RejectedUnchanged ==
    [][issued' # issued =>
          \A t \in {c \in Callers : calls[c] = NoCall} :
              /\ \A form \in {f \in Forms : RejectedPost(f)} :
                    CreateRequest(t, form) => (calls'[t] = NoCall /\ RegistryUnchanged)
              /\ \A form \in {f \in Forms : RejectedPut(f)} :
                    UpdateRequest(t, form) => (calls'[t] = NoCall /\ RegistryUnchanged)
              /\ \A id \in {"", SearchId} \ DOMAIN searches :
                    DeleteRequest(t, id) => (calls'[t] = NoCall /\ RegistryUnchanged)]_vars

\* two requests were made, a polling task runs and has cached an entry, and
\* no third channel exists: the second request was rejected
RejectedUnchangedWitness ==
    /\ issued = 2
    /\ chans = 1
    /\ \A t \in Callers : calls[t] = NoCall
    /\ SearchId \in DOMAIN searches
    /\ SearchId \in DOMAIN searchResults
    /\ searchResults[SearchId] # EmptyMap

\* C30: every registered spec that is not oneshot has a refresh of at
\* least one second.
RefreshPositive ==
    \A id \in DOMAIN searches :
        ~specs[searches[id]].Oneshot => specs[searches[id]].Refresh >= 1

\* --- reset and the caches -------------------------------------------------

\* a reset step empties every cache and keeps the ids, their specs and the
\* tasks
ResetEmpties ==
    \A t \in Callers : Reset(t) =>
        /\ DOMAIN searchResults' = DOMAIN searchResults
        /\ \A id \in DOMAIN searchResults' : searchResults'[id] = EmptyMap
        /\ searches' = searches
        /\ specs' = specs
        /\ DOMAIN tasks' = DOMAIN tasks
        /\ \A c \in DOMAIN tasks : tasks'[c].pc = tasks[c].pc

\* the task of the registered spec of its id
Owns(c) ==
    /\ tasks[c].id \in DOMAIN searches
    /\ Owner(tasks[c].id) = c

\* C21 as stated: a reset empties every cache and keeps ids and tasks, and
\* the first scan a polling search begins after the reset emits every entry
\* it returns.
ResetReemitsNextScan ==
    [][/\ ResetEmpties
       /\ \A c \in Channels :
             (Processes(c) /\ tasks[c].since = "scan" /\ ~tasks[c].oneshot /\ Owns(c))
                 => Emits(c)]_vars

\* C21 amended: a reset empties every cache and keeps ids and tasks; from
\* then on an entry whose DN is not in the cache of its search when it is
\* processed, in what is left of a scan in progress or in a later scan, is
\* emitted as new unless the task processing it is oneshot.
ResetReemits ==
    [][/\ ResetEmpties
       /\ \A c \in Channels :
             (Processes(c) /\ tasks[c].since # "none" /\ HasCache(c) /\ ~Cached(c))
                 => (Emits(c) <=> ~tasks[c].oneshot)]_vars

\* a polling task has emitted the same entry twice: once before the reset
\* and once during the first scan it began after it
ResetReemitsWitness ==
    \E c \in DOMAIN tasks :
        /\ ~tasks[c].oneshot
        /\ tasks[c].since = "scan"
        /\ tasks[c].scans = 2
        /\ Len(Sent(c)) = 2
        /\ Sent(c)[1] = Sent(c)[2]

\* C27: the cache of an id disappears only in the last step of a delete and
\* loses entries only in a reset; a failed attempt of a task, and the steps
\* of a replace and of a re-derivation, leave the registry and every cache
\* as they are.
CachePreserved ==
    [][/\ \A id \in DOMAIN searchResults :
             /\ id \notin DOMAIN searchResults' => \E t \in Callers : DropCache(t)
             /\ (/\ id \in DOMAIN searchResults'
                 /\ DOMAIN searchResults[id] \ DOMAIN searchResults'[id] # {})
                    => \E t \in Callers : Reset(t)
       /\ \A c \in Channels :
             TaskFails(c) => UNCHANGED <<searches, specs, searchResults>>
       /\ \A t \in Callers :
             (calls[t].op \in {"updateSearchHandler", "processHookResponse"}
                /\ (CloseStop(t) \/ Restart(t)))
                 => UNCHANGED <<searches, searchResults>>]_vars

\* --- the parts of one hook response ---------------------------------------

\* the frames of goroutine t while its response is processed: the bindings
\* update is on the stack only before the first transformed entry; an entry
\* is handed to handleEntry with the dependency list of the response, in the
\* order of the list and before the first derived search; a derived search
\* is taken only when every transformed entry has been handled and its call
\* has returned
PartsInOrder ==
    /\ \A t \in Callers : calls[t] # NoCall => stack[t] # <<>>
    /\ \A t \in Threads : stack[t] # <<>> =>
          LET st == stack[t]
              ph == st[1]
              n == Len(ph.resp.Transformed)
          IN /\ ph.op = "processHookResponse"
             /\ (Len(st) >= 2 /\ st[2].op = "updateBindings")
                    => (ph.next = 1 /\ ph.nextDerived = 1)
             /\ (Len(st) >= 2 /\ st[2].op = "handleEntry")
                    => /\ ph.nextDerived = 1
                       /\ ph.next - 1 \in 1..n
                       /\ st[2].pc = "absorb"
                             => /\ st[2].entry = ph.resp.Transformed[ph.next - 1]
                                /\ st[2].rawDeps = ph.resp.Dependencies
             /\ (ph.nextDerived > 1 \/ calls[t] # NoCall)
                    => (Len(st) = 1 /\ ph.next = n + 1)

\* a response with bindings begins with updateBindings
BindingsFirst ==
    \A t \in Threads :
        (stack[t] = <<>> /\ stack'[t] # <<>> /\ DOMAIN stack'[t][1].resp.Bindings # {})
            => /\ Len(stack'[t]) = 2
               /\ stack'[t][2] = UBFrame(stack'[t][1].resp.Bindings)
               /\ stack'[t][1].next = 1

\* the reset is the last thing the call does
ResetLast ==
    \A t \in Threads :
        HookReset(t) =>
            LET ph == stack[t][1] IN
            /\ Len(stack[t]) = 1
            /\ ph.next = Len(ph.resp.Transformed) + 1
            /\ ph.nextDerived = Len(ph.resp.Derived) + 1
            /\ calls[t] = NoCall
            /\ stack'[t] = <<>>

\* C28: within one hook response the bindings update, with its
\* reprocessing of pending entries, is over before a transformed entry of
\* the response is handled; every transformed entry is handled, with the
\* dependency list of the response, before a derived search is created or
\* replaced; the reset comes last.
OrderOfParts == [][PartsInOrder' /\ BindingsFirst /\ ResetLast]_vars

\* a goroutine has applied the binding, reprocessed a pending entry,
\* handled both transformed entries and finished the derived search of its
\* response; the reset is what is left
OrderOfPartsWitness ==
    \E t \in Threads :
        /\ Between(t, "reset")
        /\ stack[t][1].resp = HookFull
        /\ <<"b">> \in written
        /\ <<"g">> \in written
        /\ SearchId \in DOMAIN searchResults

\* --- the target writer: add or modify --------------------------------------

\* C37: a write of a DN the directory does not hold is an ADD of every
\* supplied attribute, with objectClass {top, inetOrgPerson} added exactly
\* when the content has no objectClass; a write of a DN it holds is a
\* MODIFY that replaces the supplied attributes and leaves the others as
\* they are; a write that fails on an error changes nothing; no other entry
\* is touched.
AddOrModify ==
    [][\A t \in Threads :
          /\ StoreSucceeds(t) =>
                LET e     == Top(stack[t]).resolvedEntry
                    key   == normalizeDN(e.DN)
                    attrs == attributesOf(e.Content)
                    named == {attrLower(a) : a \in DOMAIN attrs}
                IN /\ \A k \in DOMAIN target \ {key} :
                         k \in DOMAIN target' /\ target'[k] = target[k]
                   /\ IF key \notin DOMAIN target
                      THEN /\ \A a \in DOMAIN attrs : target'[key][attrLower(a)] = attrs[a]
                           /\ DOMAIN target'[key] =
                                 named \cup (IF "objectClass" \in DOMAIN attrs THEN {}
                                             ELSE {"objectclass"})
                           /\ "objectClass" \notin DOMAIN attrs
                                 => target'[key]["objectclass"] = DefaultObjectClass
                      ELSE /\ \A n \in DOMAIN target[key] \ named :
                                 n \in DOMAIN target'[key] /\ target'[key][n] = target[key][n]
                           /\ DOMAIN target'[key] \subseteq DOMAIN target[key] \cup named
          /\ StoreFails(t) => target' = target]_vars

\* an entry added with its own objectClass has been modified since: the
\* objectClass is the supplied one and the attributes of the later write are
\* there
AddOrModifyWitness ==
    /\ <<"a">> \in DOMAIN target
    /\ target[<<"a">>]["objectclass"] = <<ValX>>
    /\ "cn" \in DOMAIN target[<<"a">>]

\* C39: a successful write to an entry the target holds removes none of the
\* memberUid values the entry had.
MemberUidKept ==
    [][\A t \in Threads :
          (StoreSucceeds(t) /\ normalizeDN(Top(stack[t]).resolvedEntry.DN) \in DOMAIN target)
          => LET key == normalizeDN(Top(stack[t]).resolvedEntry.DN)
                 after == IF "memberuid" \in DOMAIN target'[key]
                          THEN target'[key]["memberuid"] ELSE <<>>
             IN Range(Held(key, "memberuid")) \subseteq Range(after)]_vars

\* --- pending coalescence ----------------------------------------------------

\* handleEntry is about to absorb the pending entry of its DN
Absorbs(t) ==
    /\ Running(t, "handleEntry", "absorb")
    /\ normalizeDN(Top(stack[t]).entry.DN) \in DOMAIN pending

\* C34: when handleEntry finds a pending entry under its normalized DN, the
\* content it goes on with has every key of both; a key of both where either
\* side is a sequence holds the values of the pending side followed by those
\* of the incoming side, each value once; any other key of both holds the
\* incoming scalar; the raw dependencies are those of both; the reverse
\* edges of the pending entry are gone and the DN has no pending entry.
Coalescence ==
    [][\A t \in Threads :
          (Absorbs(t) /\ HandleEntryAbsorb(t)) =>
             LET key == normalizeDN(Top(stack[t]).entry.DN)
                 old == pending[key]
                 was == old.entry.Content
                 new == Top(stack[t]).entry.Content
                 got == Top(stack'[t]).entry.Content
             IN /\ DOMAIN got = DOMAIN was \cup DOMAIN new
                /\ \A k \in DOMAIN was \ DOMAIN new : got[k] = was[k]
                /\ \A k \in DOMAIN new \ DOMAIN was : got[k] = new[k]
                /\ \A k \in DOMAIN was \cap DOMAIN new :
                      IF was[k].list \/ new[k].list
                      THEN got[k] = List(Dedup(toStringSlice(was[k]) \o toStringSlice(new[k]), {}))
                      ELSE got[k] = new[k]
                /\ Range(Top(stack'[t]).rawDeps) =
                      Range(Top(stack[t]).rawDeps) \cup Range(old.rawDeps)
                /\ \A d \in old.deps : d \in DOMAIN reverse' => key \notin reverse'[d]
                /\ key \notin DOMAIN pending']_vars

\* --- reprocessPending ---------------------------------------------------------

\* the frames of reprocessPending on the stack of t, by position
Drains(st) == {i \in DOMAIN st : st[i].op = "reprocessPending"}

\* C32: the critical section of reprocessPending leaves pending and reverse
\* empty and takes every pending entry along; each step of its loop hands
\* one of the entries it took, not handed over yet, to handleEntry with the
\* stored entry and the stored raw dependencies; the call returns only when
\* none is left.
ReprocessAll ==
    [][\A t \in Threads :
          /\ ReprocessDrain(t) =>
                /\ pending' = EmptyMap
                /\ DOMAIN reverse' = {}
                /\ IF DOMAIN pending = {}
                   THEN Drains(stack'[t]) = Drains(stack[t]) \ {Len(stack[t])}
                   ELSE Top(stack'[t]).entries = {pending[k] : k \in DOMAIN pending}
          /\ (Running(t, "reprocessPending", "loop") /\ stack'[t] # stack[t]) =>
                \E p \in Top(stack[t]).entries :
                    /\ Len(stack'[t]) = Len(stack[t]) + 1
                    /\ Top(stack'[t]) = HEFrame(p.entry, p.rawDeps)
                    /\ stack'[t][Len(stack[t])].entries = Top(stack[t]).entries \ {p}
          /\ \A i \in Drains(stack[t]) :
                (stack[t][i].pc = "loop" /\ stack[t][i].entries # {})
                    => (i \in Drains(stack'[t]) /\ stack'[t][i].entries \subseteq stack[t][i].entries)]_vars

\* --- the resolver mutex -------------------------------------------------------

\* C33: a goroutine holds d.mu only inside a critical section: not when it
\* takes a binding snapshot, writes to the target, goes round a loop over
\* the entries it collected, calls handleEntry or markSyncedAndRelease, or
\* has returned.
MutexReleased ==
    \A t \in Threads :
        mutex.holder = t =>
            /\ mutex.walk[t] # <<>>
            /\ Top(mutex.walk[t]).at \in Holding

\* a goroutine writes an entry that markSyncedAndRelease found ready while
\* the other is inside a critical section
MutexReleasedWitness ==
    \E t \in Threads :
        /\ Len(mutex.walk[t]) >= 2
        /\ Top(mutex.walk[t]).fn = "handleEntry"
        /\ Top(mutex.walk[t]).at = "store"
        /\ mutex.walk[t][Len(mutex.walk[t]) - 1].fn = "markSyncedAndRelease"
        /\ mutex.holder \notin {0, t}

\* --- one write attempt for an entry -------------------------------------------

\* the entries a frame has in hand that no write has been attempted for
InHand(f) ==
    CASE f.op = "processHookResponse" -> Len(f.resp.Transformed) + 1 - f.next
      [] f.op = "handleEntry" ->
             IF f.pc \in {"absorb", "snapshot", "decide", "store"} THEN 1 ELSE 0
      [] f.op = "reprocessPending" -> Cardinality(f.entries)
      [] f.op = "markSyncedAndRelease" ->
             Cardinality(f.ready) + (IF f.pc = "store" THEN 1 ELSE 0)
      [] OTHER -> 0

RECURSIVE InHandOf(_)
InHandOf(st) == IF st = <<>> THEN 0 ELSE InHand(Head(st)) + InHandOf(Tail(st))

RECURSIVE InHandAll(_, _)
InHandAll(stacks, ts) ==
    IF ts = {} THEN 0
    ELSE LET t == CHOOSE x \in ts : TRUE
         IN InHandOf(stacks[t]) + InHandAll(stacks, ts \ {t})

\* the entries on their way: in the hands of a goroutine or in pending
Holders(stacks, pend) == InHandAll(stacks, Threads) + Cardinality(DOMAIN pend)

\* the transformed entries of the response a step begins with, if it does
Handed(t) ==
    IF stack[t] = <<>> /\ stack'[t] # <<>>
    THEN Len(stack'[t][1].resp.Transformed)
    ELSE 0

\* no step makes two entries of one: the entries on their way grow only by
\* those of a response that is begun, and the step that begins a write
\* attempt takes the entry it writes out of them
OneAttempt ==
    /\ Holders(stack', pending') <=
          Holders(stack, pending) + Handed(1) + Handed(2)
    /\ \A t \in Threads :
          StoreBegin(t) => Holders(stack', pending') = Holders(stack, pending) - 1

\* a response is processed only by a goroutine that sendHooks started for
\* an emitted result
FromEmission == started' # started => started < HooksConfigured * Emissions

\* C31 as stated: each entry handed to handleEntry leads to at most one
\* write attempt, and a source entry a task observes again with unchanged
\* content is not emitted, so that no response and no write follow from it.
OneWriteAlways ==
    [][/\ OneAttempt
       /\ FromEmission
       /\ \A c \in Channels :
             (Processes(c) /\ tasks[c].scans >= 1) => emitted' = emitted]_vars

\* C31 amended: each entry handed to handleEntry leads to at most one write
\* attempt, and a source entry whose content is the one cached for its
\* search and DN is neither emitted nor cached anew, so that no response and
\* no write follow from it.
OneWrite ==
    [][/\ OneAttempt
       /\ FromEmission
       /\ \A c \in Channels :
             (Processes(c) /\ Cached(c) /\ ~Differs(c))
                 => (emitted' = emitted /\ searchResults' = searchResults)]_vars

\* the entry was observed twice and emitted once; the group entry its hooks
\* returned, deferred and then released or drained, has been written
OneWriteWitness ==
    \E c \in DOMAIN tasks :
        /\ tasks[c].scans = 2
        /\ Len(Sent(c)) = 1
        /\ <<"g">> \in written

\* --- two concurrent handleEntry calls for one DN ------------------------------

\* the deferring handleEntry of goroutine t installs its entry over a
\* pending entry of the same key
Overwrites(t) ==
    /\ HandleEntryDecide(t)
    /\ pending' # pending
    /\ normalizeDN(Top(stack[t]).entry.DN) \in DOMAIN pending

\* what the pending entry before held is held by the pending entry after
Carried(before, after) ==
    /\ DOMAIN before.entry.Content \subseteq DOMAIN after.entry.Content
    /\ Range(before.rawDeps) \subseteq Range(after.rawDeps)

\* C38: when two handleEntry calls for the same normalized DN run
\* concurrently and both entries are deferred, the attributes and the
\* dependencies of both are in the one pending entry of the DN, and no
\* reverse edge of the entry installed first is left behind.
NoLostEntry ==
    [][\A t \in Threads :
          Overwrites(t) =>
             LET key == normalizeDN(Top(stack[t]).entry.DN)
             IN /\ Carried(pending[key], pending'[key])
                /\ \A d \in pending[key].deps \ pending'[key].deps :
                      d \in DOMAIN reverse' => key \notin reverse'[d]]_vars

\* --- cancellation of the prior task -------------------------------------------

\* the step of caller t that executes close(spec.Stop)
Closes(t) == Calling(t, "close") /\ calls'[t] # calls[t]

\* C36: under any interleaving of REST PUT, REST DELETE and hook-derived
\* re-derivation on the same search id, each cancellation signal is closed
\* at most once, every newly started task gets a signal no other task uses
\* and that is not closed, and the process never crashes.
CancelledOnce ==
    [][/\ \A t \in Callers :
             Closes(t) => specs[calls[t].spec].Stop \notin closed
       /\ \A c \in DOMAIN tasks' \ DOMAIN tasks : c \notin closed /\ c = chans'
       /\ ~crashed']_vars

\* --- a oneshot search replaced by a polling one -------------------------------

\* caller t replaces the spec of a registered search: the steps of a REST
\* PUT and of a hook re-derivation after the check of the registry
Replaces(t) ==
    /\ calls[t].op \in {"updateSearchHandler", "processHookResponse"}
    /\ CloseStop(t) \/ Restart(t)

\* C40: a task started as oneshot caches the entries it observes and emits
\* none; a replace of the spec leaves the cache as it is; and an entry
\* whose content is the cached one is not emitted by the task of the new
\* spec either, while an entry that is not cached or whose content has
\* changed is emitted by a task that is not oneshot.
OneshotCacheSilent ==
    [][/\ \A c \in Channels : Processes(c) =>
             /\ tasks[c].oneshot =>
                   (emitted' = emitted /\ (HasCache(c) => CacheHolds(c)))
             /\ (Cached(c) /\ ~Differs(c)) =>
                   (emitted' = emitted /\ searchResults' = searchResults)
             /\ (~tasks[c].oneshot /\ HasCache(c) /\ (~Cached(c) \/ Differs(c)))
                   => Emits(c)
       /\ \A t \in Callers : Replaces(t) => searchResults' = searchResults]_vars

\* a oneshot task has scanned the source, the spec has been replaced, the
\* task of the new spec, not oneshot, has scanned the source as well, the
\* entry is cached and nothing was ever emitted
OneshotCacheSilentWitness ==
    /\ \E c \in DOMAIN tasks : tasks[c].oneshot /\ tasks[c].scans >= 1
    /\ \E c \in DOMAIN tasks : ~tasks[c].oneshot /\ tasks[c].scans >= 1
    /\ SearchId \in DOMAIN searchResults
    /\ DOMAIN searchResults[SearchId] # {}
    /\ \A c \in Channels : Sent(c) = <<>>

\* --- cycles and dangling dependencies -----------------------------------------

\* the entries of the cycle and the entry whose dependency is never written
Stuck == {<<"c">>, <<"d">>, <<"g">>}

\* a goroutine is about to write, or is writing, the entry of key k
Attempted(k) ==
    \E t \in Threads : \E i \in DOMAIN stack[t] :
        /\ stack[t][i].op \in {"handleEntry", "markSyncedAndRelease"}
        /\ stack[t][i].pc \in {"store", "storing", "mark"}
        /\ normalizeDN(stack[t][i].resolvedEntry.DN) = k

\* no write of the entry is attempted, so that none succeeds and none fails
NeverWritten(k) == k \notin written' /\ k \notin synced' /\ ~Attempted(k)'

\* C35 as stated: the entries of a dependency cycle and an entry with a
\* dangling dependency, once pending, are in pending in every later state;
\* they are never written and no error state is entered for them.
StuckForever ==
    [][\A k \in Stuck :
          /\ k \in DOMAIN pending => k \in DOMAIN pending'
          /\ NeverWritten(k)]_vars

\* the entry of key k is in pending, or in the hands of a goroutine that
\* took it out of pending to evaluate it again
InHandOrPending(st, pend, k) ==
    \/ k \in DOMAIN pend
    \/ \E t \in Threads : \E i \in DOMAIN st[t] :
          \/ /\ st[t][i].op = "handleEntry"
             /\ normalizeDN(st[t][i].entry.DN) = k
          \/ /\ st[t][i].op = "reprocessPending"
             /\ \E p \in st[t][i].entries : normalizeDN(p.entry.DN) = k

\* C35 amended: such an entry is never written and no write of it is
\* attempted; once pending it is either in pending or in the hands of a
\* goroutine evaluating it again, which puts it back, so that it is in
\* pending whenever no goroutine is at work.
StuckPending ==
    [][\A k \in Stuck :
          /\ InHandOrPending(stack, pending, k) => InHandOrPending(stack', pending', k)
          /\ (InHandOrPending(stack', pending', k) /\ Idle') => k \in DOMAIN pending'
          /\ NeverWritten(k)]_vars

\* the cycle and the entry with the dangling dependency are pending after
\* a new binding has made reprocessPending evaluate the pending entries
\* again, and no goroutine is at work
StuckPendingWitness ==
    /\ Idle
    /\ Stuck \subseteq DOMAIN pending
    /\ DOMAIN bindings # {}
    /\ started = MaxResponses

====
